---- MODULE Spec2Model ----
(***************************************************************************)
(* Hookbase MCP server: the configuration resolver (lib/config.ts), the    *)
(* transport dispatcher (lib/api.ts), the server set-up (server.ts) and    *)
(* the entry point (index.ts), as one state machine.                       *)
(*                                                                         *)
(* JavaScript values are records tagged by a field t; a function either    *)
(* returns a value or throws, and a fetch either rejects or resolves to a  *)
(* response whose body text is parsed by response.json().                  *)
(***************************************************************************)
EXTENDS Integers, Sequences, FiniteSets, TLC

(***************************************************************************)
(* Bounds                                                                  *)
(***************************************************************************)
\* number of initConfig calls in one behaviour (the start-up call included)
MaxInitCalls == 2
\* number of tool invocations the host issues in one behaviour
MaxInv == 1

(***************************************************************************)
(* JavaScript values                                                       *)
(***************************************************************************)
Undef == [t |-> "undefined"]
JNull == [t |-> "null"]
Str(s) == [t |-> "string", s |-> s]
Obj(f) == [t |-> "object", o |-> f]
Arr(q) == [t |-> "array", a |-> q]

\* the fields of {}
NoFields == [x \in {} |-> Undef]

\* ToBoolean, as used by !x, x || y and if (x)
Truthy(v) ==
  CASE v.t = "undefined" -> FALSE
    [] v.t = "null" -> FALSE
    [] v.t = "string" -> v.s # ""
    [] v.t = "number" -> v.n # 0
    [] v.t = "boolean" -> v.b
    [] OTHER -> TRUE

Num(n) == [t |-> "number", n |-> n]

Bool(b) == [t |-> "boolean", b |-> b]

\* a || b
Or(a, b) == IF Truthy(a) THEN a ELSE b

\* a ?? b
Nullish(a, b) == IF a.t \in {"null", "undefined"} THEN b ELSE a

\* JSON.stringify(v, null, 2) as the value its text denotes: a property whose
\* value is undefined is left out, an undefined array element becomes null
RECURSIVE JsonValue(_)
JsonValue(v) ==
  CASE v.t = "object" ->
         Obj([k \in {x \in DOMAIN v.o : v.o[x] # Undef} |-> JsonValue(v.o[k])])
    [] v.t = "array" ->
         Arr([k \in DOMAIN v.a |-> IF v.a[k] = Undef THEN JNull ELSE JsonValue(v.a[k])])
    [] OTHER -> v

\* a function call completes by returning a value or by throwing one
Return(v) == [k |-> "return", v |-> v]
Throw(e) == [k |-> "throw", e |-> e]

\* new Error(message) and its subclasses: error instanceof Error holds
ErrorOf(m) == [isError |-> TRUE, message |-> m]

\* v.key; reading a property of null or undefined throws a TypeError
Prop(v, key) ==
  CASE v.t \in {"null", "undefined"} ->
         Throw(ErrorOf("Cannot read properties of " \o v.t))
    [] v.t = "object" ->
         Return(IF key \in DOMAIN v.o THEN v.o[key] ELSE Undef)
    [] v.t = "array" /\ key = "length" -> Return(Num(Len(v.a)))
    [] v.t = "string" /\ key = "length" -> Return(Num(Len(v.s)))
    [] OTHER -> Return(Undef)

\* `${v}` in a template string
ToStr(v) ==
  CASE v.t = "string" -> v.s
    [] v.t = "undefined" -> "undefined"
    [] v.t = "null" -> "null"
    [] v.t = "boolean" -> IF v.b THEN "true" ELSE "false"
    [] v.t = "number" /\ v.n \in 0..9 -> SubSeq("0123456789", v.n + 1, v.n + 1)
    [] OTHER -> "[object Object]"

\* s.startsWith(p)
StartsWith(s, p) == Len(s) >= Len(p) /\ SubSeq(s, 1, Len(p)) = p

(***************************************************************************)
(* HTTP as the program sees it                                             *)
(***************************************************************************)
\* the text of a response body: not JSON at all, or the JSON text of v
Invalid == [t |-> "invalid"]
Json(v) == [t |-> "json", v |-> v]

\* response.json()
ResponseJson(body) ==
  IF body.t = "invalid"
    THEN Throw(ErrorOf("Unexpected token < in JSON at position 0"))
    ELSE Return(body.v)

\* a bug: only 200 counts as success
ResponseOk_Only200(status) == status = 200

\* response.ok
ResponseOk(status) == status >= 200 /\ status <= 299

\* the outcome of await fetch(...)
Reject(e) == [k |-> "reject", e |-> e]
Response(status, body) == [k |-> "response", status |-> status, body |-> body]

\* what fetch rejects with: always an Error (TypeError, AbortError)
FetchErrors == {ErrorOf("fetch failed"), ErrorOf("This operation was aborted")}

(***************************************************************************)
(* config.ts                                                               *)
(***************************************************************************)
DefaultApiUrl == "https://api.hookbase.app"

MissingKeyMsg ==
  "Missing HOOKBASE_API_KEY environment variable. Get your API key from the Hookbase dashboard."
InvalidFormatMsg ==
  "Invalid HOOKBASE_API_KEY format. API keys should start with \"whr_\"."
NoOrgsMsg == "No organizations found for this API key"
MultipleOrgsMsg == "Multiple organizations found. Set HOOKBASE_ORG_ID to one of:"
NotInitializedMsg == "Config not initialized. Call initConfig() first."

\* the two shapes initConfig resolves to
ConfigResult(c) == [config |-> c]
ErrorResult(m) == [error |-> m]

Config(apiUrl, apiKey, orgId) == [apiUrl |-> apiUrl, apiKey |-> apiKey, orgId |-> orgId]

\* what a try block leaves behind: how it completed, and the configuration
\* it assigned to cachedConfig on the way, if any (<<>> for none)
Outcome(out, write) == [out |-> out, write |-> write]

\* data.organizations[0]
First(v) ==
  CASE v.t \in {"null", "undefined"} ->
         Throw(ErrorOf("Cannot read properties of " \o v.t))
    [] v.t = "array" -> Return(IF Len(v.a) >= 1 THEN v.a[1] ELSE Undef)
    [] OTHER -> Return(Undef)

\* a bug: only the first organization is listed
OrgList_FirstOnly(q) ==
  Return("  - " \o ToStr(Prop(Head(q), "name").v) \o " (" \o ToStr(Prop(Head(q), "id").v) \o ")")

\* data.organizations.map(o => `  - ${o.name} (${o.id})`).join('\n')
RECURSIVE OrgList(_)
OrgList(q) ==
  IF q = <<>> THEN Return("")
  ELSE LET name == Prop(Head(q), "name")
           id == Prop(Head(q), "id")
           rest == OrgList(Tail(q))
       IN IF name.k = "throw" THEN name
          ELSE IF id.k = "throw" THEN id
          ELSE IF rest.k = "throw" THEN rest
          ELSE Return("  - " \o ToStr(name.v) \o " (" \o ToStr(id.v) \o ")"
                      \o (IF Tail(q) = <<>> THEN "" ELSE "\n" \o rest.v))

\* a bug: an empty list is not taken for no organization
NoOrganizations_AbsentOnly(orgs) == ~Truthy(orgs)

\* config.ts 54: !data.organizations || data.organizations.length === 0
NoOrganizations(orgs) ==
  IF ~Truthy(orgs) THEN TRUE ELSE Prop(orgs, "length").v = Num(0)

\* config.ts 50-68: the identity lookup answered with a success status
LookupOk(apiUrl, apiKey, body) ==
  LET data == ResponseJson(body) IN
  IF data.k = "throw" THEN Outcome(data, <<>>)
  ELSE
  LET orgs == Prop(data.v, "organizations") IN
  IF orgs.k = "throw" THEN Outcome(orgs, <<>>)
  ELSE IF NoOrganizations(orgs.v) THEN Outcome(Return(ErrorResult(Str(NoOrgsMsg))), <<>>)
  ELSE
  LET len == Prop(orgs.v, "length").v IN
  IF len.t = "number" /\ len.n > 1
    THEN LET list == IF orgs.v.t = "array" THEN OrgList(orgs.v.a)
                     ELSE Throw(ErrorOf("data.organizations.map is not a function"))
         IN
         IF list.k = "throw" THEN Outcome(list, <<>>)
         ELSE Outcome(Return(ErrorResult(Str(MultipleOrgsMsg \o "\n" \o list.v))), <<>>)
  ELSE
  LET org == First(orgs.v).v
      id == Prop(org, "id")
  IN IF id.k = "throw" THEN Outcome(id, <<>>)
     ELSE LET c == Config(apiUrl, apiKey, id.v)
          IN Outcome(Return(ConfigResult(c)), <<c>>)

\* config.ts 45-48: the identity lookup answered with a failure status
LookupNotOk(body) ==
  LET data == ResponseJson(body) IN
  IF data.k = "throw" THEN Outcome(data, <<>>)
  ELSE
  LET e == Prop(data.v, "error")
      m == Prop(data.v, "message")
  IN IF e.k = "throw" THEN Outcome(e, <<>>)
     ELSE Outcome(Return(ErrorResult(Or(Or(e.v, m.v), Str("Invalid API key")))), <<>>)

\* config.ts 36-68: the try block, given what the fetch came to
LookupTry(apiUrl, apiKey, o) ==
  IF o.k = "reject" THEN Outcome(Throw(o.e), <<>>)
  ELSE IF ~ResponseOk(o.status) THEN LookupNotOk(o.body)
  ELSE LookupOk(apiUrl, apiKey, o.body)

\* a bug: the exception's message is dropped
MessageOf_Generic(e) == "Network error"

\* error instanceof Error ? error.message : 'Network error'
MessageOf(e) == IF e.isError THEN e.message ELSE "Network error"

\* a bug: no catch clause, the exception leaves initConfig
LookupCatch_Rethrow(r) == r

\* config.ts 69-73: the catch clause
LookupCatch(r) ==
  IF r.out.k = "throw"
    THEN Outcome(Return(ErrorResult(Str("Failed to validate API key: " \o MessageOf(r.out.e)))),
                 r.write)
    ELSE r

\* config.ts 36-73
Lookup(apiUrl, apiKey, o) == LookupCatch(LookupTry(apiUrl, apiKey, o))


(***************************************************************************)
(* The environment: process.env and the remote                             *)
(***************************************************************************)
\* process.env, fixed when the process starts
Envs ==
  [HOOKBASE_API_KEY : {Undef, Str(""), Str("sk_live_1"), Str("whr_k1")},
   HOOKBASE_API_URL : {Undef, Str("http://localhost:8787")},
   HOOKBASE_ORG_ID : {Undef, Str("org_env")}]

Org1 == Obj([id |-> Str("org_1"), name |-> Str("Acme")])
Org2 == Obj([id |-> Str("org_2"), name |-> Str("Beta")])

\* bodies GET /api/auth/me may answer with when it refuses the key
AuthErrorBodies ==
  {Invalid, Json(JNull),
   Json(Obj([error |-> Str("Unauthorized")])),
   Json(Obj([message |-> Str("Key revoked")])),
   Json(Obj([user |-> Str("u1")]))}

\* and when it accepts it
AuthOkBodies ==
  {Invalid, Json(JNull),
   Json(Obj([user |-> Str("u1")])),
   Json(Obj([organizations |-> Arr(<<>>)])),
   Json(Obj([organizations |-> Arr(<<Org1>>)])),
   Json(Obj([organizations |-> Arr(<<Org2>>)])),
   Json(Obj([organizations |-> Arr(<<Org1, Org2>>)])),
   Json(Obj([organizations |-> Arr(<<JNull>>)]))}

AuthOutcomes ==
  {Reject(e) : e \in FetchErrors} \cup
  {Response(401, b) : b \in AuthErrorBodies} \cup
  {Response(200, b) : b \in AuthOkBodies}

\* bodies the organization-scoped endpoints may answer with
ApiBodies ==
  {Invalid, Json(JNull),
   Json(Obj([foo |-> Str("bar")])),
   Json(Obj([error |-> Str("not found")])),
   Json(Obj([message |-> Str("bad request")])),
   Json(Obj([error |-> Str(""), message |-> Str("bad request")]))}

\* a source as the remote returns it
Source1 ==
  Obj([id |-> Str("src_1"), name |-> Str("GitHub"), slug |-> Str("github"),
       is_active |-> Num(1), transient_mode |-> Num(0), event_count |-> Num(7)])

Source2 ==
  Obj([id |-> Str("src_2"), name |-> Str("Stripe"), slug |-> Str("stripe"),
       is_active |-> Num(0), transient_mode |-> Num(1)])

\* bodies that carry what the source tools ask for
SourceBodies ==
  {Json(Obj([sources |-> Arr(<<>>)])),
   Json(Obj([sources |-> Arr(<<Source1, Source2>>)])),
   Json(Obj([source |-> Source1]))}

ApiOutcomes ==
  {Reject(e) : e \in FetchErrors} \cup
  {Response(st, b) : st \in {200, 404}, b \in ApiBodies} \cup
  {Response(200, b) : b \in SourceBodies} \cup
  {Response(201, Json(Obj([foo |-> Str("bar")])))} \cup
  {Response(st, Invalid) : st \in {204, 502}}

\* the calls of request the tool handlers make: method, path suffix, body
ApiOps ==
  {[tool |-> "hookbase_list_sources", method |-> "GET", suffix |-> "/sources",
    body |-> Undef],
   [tool |-> "hookbase_create_source", method |-> "POST", suffix |-> "/sources",
    body |-> Obj([name |-> Str("s1"), slug |-> Str("s-1"), description |-> Undef,
                  rejectInvalidSignatures |-> Undef, rateLimitPerMinute |-> Undef,
                  transientMode |-> Undef])]}

(***************************************************************************)
(* State                                                                   *)
(***************************************************************************)
VARIABLES
  env,           \* process.env
  cachedConfig,  \* config.ts 12: JNull or a Config
  ic,            \* the initConfig call in flight: its position and its locals
  icResult,      \* how the latest finished initConfig call completed
  icOutcome,     \* what the fetch of that call came to (None: it made none)
  icCalls,       \* initConfig calls started
  icDone,        \* initConfig calls finished
  icFailures,    \* of those, the ones that resolved to {error}
  lookups,       \* GET /api/auth/me requests issued
  mainPc,        \* position of main() / createServer()
  registered,    \* the tools are registered on the server
  prompts,       \* the prompts are registered on the server
  logged,        \* what createServer wrote with console.error
  inv            \* the tool invocations, one record per invocation

vars == <<env, cachedConfig, ic, icResult, icOutcome, icCalls, icDone, icFailures,
          lookups, mainPc, registered, prompts, logged, inv>>

None == [t |-> "none"]

Invs == 1..MaxInv

IdleCall == [pc |-> "idle", apiUrl |-> None, apiKey |-> None]
IdleInv == [pc |-> "idle", args |-> None, op |-> None, req |-> None, fetches |-> 0,
            first |-> None, resp |-> None, ret |-> None, res |-> None, out |-> None]

Init ==
  /\ env \in Envs
  /\ cachedConfig = JNull
  /\ ic = IdleCall
  /\ icResult = None
  /\ icOutcome = None
  /\ icCalls = 0
  /\ icDone = 0
  /\ icFailures = 0
  /\ lookups = 0
  /\ mainPc = "start"
  /\ registered = FALSE
  /\ prompts = FALSE
  /\ logged = None
  /\ inv = [i \in Invs |-> IdleInv]

IsError(r) == r.k = "return" /\ "error" \in DOMAIN r.v
IsConfig(r) == r.k = "return" /\ "config" \in DOMAIN r.v

(***************************************************************************)
(* initConfig                                                              *)
(***************************************************************************)
\* how the part of initConfig before the fetch ends: with an error result,
\* with a configuration that it caches, or at the identity lookup
EntryFail(msg) == [done |-> TRUE, r |-> Outcome(Return(ErrorResult(Str(msg))), <<>>)]
EntryResolve(c) == [done |-> TRUE, r |-> Outcome(Return(ConfigResult(c)), <<c>>)]
EntryLookup(apiUrl, apiKey) == [done |-> FALSE, apiUrl |-> apiUrl, apiKey |-> apiKey]

\* a bug: the configuration is cached before the key's format is checked
InitConfigEntry_CacheBeforeCheck(e) ==
  LET apiKey == e.HOOKBASE_API_KEY
      apiUrl == Or(e.HOOKBASE_API_URL, Str(DefaultApiUrl))
      c == Config(apiUrl, apiKey, e.HOOKBASE_ORG_ID)
  IN IF ~Truthy(apiKey) THEN EntryFail(MissingKeyMsg)
     ELSE IF ~StartsWith(apiKey.s, "whr_")
       THEN [done |-> TRUE, r |-> Outcome(Return(ErrorResult(Str(InvalidFormatMsg))), <<c>>)]
     ELSE IF Truthy(e.HOOKBASE_ORG_ID) THEN EntryResolve(c)
     ELSE EntryLookup(apiUrl, apiKey)

\* a bug: the organization override is looked at before the key
InitConfigEntry_OverrideFirst(e) ==
  LET apiKey == e.HOOKBASE_API_KEY
      apiUrl == Or(e.HOOKBASE_API_URL, Str(DefaultApiUrl))
  IN IF Truthy(e.HOOKBASE_ORG_ID)
       THEN EntryResolve(Config(apiUrl, apiKey, e.HOOKBASE_ORG_ID))
     ELSE IF ~Truthy(apiKey) THEN EntryFail(MissingKeyMsg)
     ELSE IF ~StartsWith(apiKey.s, "whr_") THEN EntryFail(InvalidFormatMsg)
     ELSE EntryLookup(apiUrl, apiKey)

\* a bug: the key's prefix is not checked
InitConfigEntry_NoPrefixCheck(e) ==
  LET apiKey == e.HOOKBASE_API_KEY
      apiUrl == Or(e.HOOKBASE_API_URL, Str(DefaultApiUrl))
  IN IF ~Truthy(apiKey) THEN EntryFail(MissingKeyMsg)
     ELSE IF Truthy(e.HOOKBASE_ORG_ID)
       THEN EntryResolve(Config(apiUrl, apiKey, e.HOOKBASE_ORG_ID))
     ELSE EntryLookup(apiUrl, apiKey)

\* a bug: HOOKBASE_API_URL is ignored when the organization is given
InitConfigEntry_IgnoreUrl(e) ==
  LET apiKey == e.HOOKBASE_API_KEY
      apiUrl == Or(e.HOOKBASE_API_URL, Str(DefaultApiUrl))
  IN IF ~Truthy(apiKey) THEN EntryFail(MissingKeyMsg)
     ELSE IF ~StartsWith(apiKey.s, "whr_") THEN EntryFail(InvalidFormatMsg)
     ELSE IF Truthy(e.HOOKBASE_ORG_ID)
       THEN EntryResolve(Config(Str(DefaultApiUrl), apiKey, e.HOOKBASE_ORG_ID))
     ELSE EntryLookup(apiUrl, apiKey)

\* config.ts 18-35: the part of initConfig before the fetch
InitConfigEntry(e) ==
  LET apiKey == e.HOOKBASE_API_KEY
      apiUrl == Or(e.HOOKBASE_API_URL, Str(DefaultApiUrl))
  IN IF ~Truthy(apiKey) THEN EntryFail(MissingKeyMsg)
     ELSE IF ~StartsWith(apiKey.s, "whr_") THEN EntryFail(InvalidFormatMsg)
     ELSE IF Truthy(e.HOOKBASE_ORG_ID)
       THEN EntryResolve(Config(apiUrl, apiKey, e.HOOKBASE_ORG_ID))
     ELSE EntryLookup(apiUrl, apiKey)

\* an initConfig call finishes with r
InitConfigFinish(r, o) ==
  /\ cachedConfig' = IF r.write = <<>> THEN cachedConfig ELSE r.write[1]
  /\ icResult' = r.out
  /\ icOutcome' = o
  /\ icDone' = icDone + 1
  /\ icFailures' = IF IsError(r.out) THEN icFailures + 1 ELSE icFailures
  /\ ic' = IdleCall

\* a call of initConfig, up to its first await
InitConfigCall ==
  /\ ic.pc = "idle"
  /\ icCalls' = icCalls + 1
  /\ LET s == InitConfigEntry(env)
     IN IF s.done
          THEN InitConfigFinish(s.r, None) /\ UNCHANGED lookups
          ELSE /\ ic' = [pc |-> "awaitFetch", apiUrl |-> s.apiUrl, apiKey |-> s.apiKey]
               /\ lookups' = lookups + 1
               /\ UNCHANGED <<cachedConfig, icResult, icOutcome, icDone, icFailures>>

\* the identity lookup comes to o and initConfig runs to its end
InitConfigSettle(o) ==
  /\ ic.pc = "awaitFetch"
  /\ InitConfigFinish(Lookup(ic.apiUrl, ic.apiKey, o), o)
  /\ UNCHANGED <<env, icCalls, lookups, mainPc, registered, prompts, logged, inv>>

\* a later call of the exported initConfig (a caller retrying resolution)
InitConfigAgain ==
  /\ mainPc \in {"created", "connected"}
  /\ icCalls < MaxInitCalls
  /\ InitConfigCall
  /\ UNCHANGED <<env, mainPc, registered, prompts, logged, inv>>


(***************************************************************************)
(* createServer and main                                                   *)
(***************************************************************************)
\* a bug: initConfig() is called without await
InitAwaited_NoAwait == TRUE

\* server.ts 33: await initConfig() lets createServer go on only once the
\* call it made has finished
InitAwaited == ic.pc = "idle"

\* server.ts 27-33: new McpServer, then the call of initConfig
CreateServerStart ==
  /\ mainPc = "start"
  /\ mainPc' = "awaitInit"
  /\ InitConfigCall
  /\ UNCHANGED <<env, registered, prompts, logged, inv>>

\* a bug: a configuration error ends the process
CreateServerResume_ExitOnError ==
  /\ mainPc = "awaitInit"
  /\ InitAwaited
  /\ IF icResult # None /\ (icResult.k = "throw" \/ IsError(icResult))
       THEN mainPc' = "exited" /\ UNCHANGED <<registered, prompts, logged>>
       ELSE /\ logged' = logged
            /\ registered' = TRUE
            /\ prompts' = TRUE
            /\ mainPc' = "created"
  /\ UNCHANGED <<env, cachedConfig, ic, icResult, icOutcome, icCalls, icDone,
                 icFailures, lookups, inv>>

\* server.ts 34-103: the rest of createServer. A rejected initConfig would
\* reject createServer, and main's catch would end the process.
CreateServerResume ==
  /\ mainPc = "awaitInit"
  /\ InitAwaited
  /\ IF icResult # None /\ icResult.k = "throw"
       THEN mainPc' = "exited" /\ UNCHANGED <<registered, prompts, logged>>
       ELSE /\ logged' = IF icResult # None /\ IsError(icResult)
                           THEN Str("Configuration error: " \o ToStr(icResult.v.error))
                           ELSE logged
            /\ registered' = TRUE
            /\ prompts' = TRUE
            /\ mainPc' = "created"
  /\ UNCHANGED <<env, cachedConfig, ic, icResult, icOutcome, icCalls, icDone,
                 icFailures, lookups, inv>>

\* index.ts: const server = await createServer(); await server.connect(transport)
MainConnect ==
  /\ mainPc = "created"
  /\ mainPc' = "connected"
  /\ UNCHANGED <<env, cachedConfig, ic, icResult, icOutcome, icCalls, icDone,
                 icFailures, lookups, registered, prompts, logged, inv>>

(***************************************************************************)
(* api.ts: request and orgPath                                             *)
(***************************************************************************)
\* a bug: getConfig resolves from process.env anew instead of the cache
GetConfig_RereadEnv ==
  IF cachedConfig = JNull THEN Throw(ErrorOf(NotInitializedMsg))
  ELSE Return(Config(Or(env.HOOKBASE_API_URL, Str(DefaultApiUrl)),
                     env.HOOKBASE_API_KEY, env.HOOKBASE_ORG_ID))

\* config.ts 79-84
GetConfig ==
  IF cachedConfig = JNull THEN Throw(ErrorOf(NotInitializedMsg)) ELSE Return(cachedConfig)

\* a bug: the organization's id is left out of the path
OrgPath_NoOrgId(path) ==
  IF GetConfig.k = "throw" THEN GetConfig ELSE Return("/api/organizations" \o path)

\* api.ts 57-60
OrgPath(path) ==
  LET config == GetConfig
  IN IF config.k = "throw" THEN config
     ELSE Return("/api/organizations/" \o ToStr(config.v.orgId) \o path)

\* a bug: a body is serialized and sent for every request
RequestEntry_AlwaysBody(method, path, body) ==
  LET config == GetConfig
  IN IF config.k = "throw" THEN config
     ELSE Return([url |-> ToStr(config.v.apiUrl) \o path,
                  method |-> method,
                  headers |-> [ContentType |-> "application/json",
                               Authorization |-> "Bearer " \o ToStr(config.v.apiKey)],
                  body |-> Json(JsonValue(body))])

\* api.ts 22-34: request up to its await: the arguments of the fetch it makes
RequestEntry(method, path, body) ==
  LET config == GetConfig
  IN IF config.k = "throw" THEN config
     ELSE Return([url |-> ToStr(config.v.apiUrl) \o path,
                  method |-> method,
                  headers |-> [ContentType |-> "application/json",
                               Authorization |-> "Bearer " \o ToStr(config.v.apiKey)],
                  body |-> IF Truthy(body) THEN Json(JsonValue(body)) ELSE Undef])

\* api.ts 30-45: the try block, given what the fetch came to
RequestTry(o) ==
  IF o.k = "reject" THEN Throw(o.e)
  ELSE
  LET data == ResponseJson(o.body) IN
  IF data.k = "throw" THEN data
  ELSE IF ~ResponseOk(o.status)
    THEN LET e == Prop(data.v, "error")
             m == Prop(data.v, "message")
         IN IF e.k = "throw" THEN e
            ELSE Return([error |-> Or(Or(e.v, m.v), Str("Request failed")),
                         status |-> o.status])
  ELSE Return([data |-> data.v, status |-> o.status])

\* a bug: the catch clause returns no error field
RequestCatch_NoError(r) ==
  IF r.k = "throw" THEN Return([status |-> 0]) ELSE r

\* a bug: the catch clause drops the exception's message
RequestCatch_GenericMessage(r) ==
  IF r.k = "throw" THEN Return([error |-> Str("Network error"), status |-> 0]) ELSE r

\* api.ts 46-51: the catch clause
RequestCatch(r) ==
  IF r.k = "throw" THEN Return([error |-> Str(MessageOf(r.e)), status |-> 0]) ELSE r

\* api.ts 29-51
RequestSettle(o) == RequestCatch(RequestTry(o))

\* a bug: a rejected fetch is tried once more
RequestFetches_RetryOnReject(o) == IF o.k = "reject" THEN 2 ELSE 1

\* api.ts 29-51: request holds one fetch and no loop: whatever the fetch
\* comes to, the call has made one
RequestFetches(o) == 1

(***************************************************************************)
(* The tools' input schemas and api calls                                  *)
(***************************************************************************)
Field(type, optional) == [type |-> type, optional |-> optional]

\* tool.inputSchema.shape: the declared fields (a z.record is an object, a
\* z.string().url() a string)
Shape(tool) ==
  CASE tool = "hookbase_list_sources" -> <<>>
    [] tool = "hookbase_get_event_debug" -> [event_id |-> Field("string", FALSE)]
    [] tool = "hookbase_list_applications" ->
         [search |-> Field("string", TRUE), is_enabled |-> Field("boolean", TRUE),
          limit |-> Field("number", TRUE), cursor |-> Field("string", TRUE)]
    [] tool = "hookbase_get_application" -> [application_id |-> Field("string", FALSE)]
    [] tool = "hookbase_update_application" ->
         [application_id |-> Field("string", FALSE), name |-> Field("string", TRUE),
          metadata |-> Field("object", TRUE),
          rate_limit_per_second |-> Field("number", TRUE),
          rate_limit_per_minute |-> Field("number", TRUE),
          rate_limit_per_hour |-> Field("number", TRUE),
          is_enabled |-> Field("boolean", TRUE),
          disabled_reason |-> Field("string", TRUE)]
    [] tool = "hookbase_list_endpoints" ->
         [application_id |-> Field("string", TRUE), is_enabled |-> Field("boolean", TRUE),
          circuit_state |-> Field("string", TRUE), limit |-> Field("number", TRUE),
          cursor |-> Field("string", TRUE)]
    [] tool = "hookbase_get_endpoint" -> [endpoint_id |-> Field("string", FALSE)]
    [] tool = "hookbase_update_endpoint" ->
         [endpoint_id |-> Field("string", FALSE), url |-> Field("string", TRUE),
          description |-> Field("string", TRUE), headers |-> Field("array", TRUE),
          timeout_seconds |-> Field("number", TRUE),
          is_enabled |-> Field("boolean", TRUE),
          disabled_reason |-> Field("string", TRUE),
          circuit_failure_threshold |-> Field("number", TRUE),
          circuit_success_threshold |-> Field("number", TRUE),
          circuit_cooldown_seconds |-> Field("number", TRUE)]

InvalidArgumentsMsg == "Invalid arguments for tool"

\* a field of the arguments that the shape does not accept: a required field
\* that is missing or a field of the wrong type
Malformed(shape, arguments) ==
  \E f \in DOMAIN shape :
    IF f \in DOMAIN arguments.o
      THEN arguments.o[f].t # shape[f].type
      ELSE ~shape[f].optional

\* a field of the arguments that the shape does not declare
Undeclared(shape, arguments) == DOMAIN arguments.o \ DOMAIN shape # {}

\* part_001 57-61: the tool is registered with schema.shape, the plain
\* record of its fields, from which the protocol layer builds the object
\* schema it validates the arguments with; the object schema built from a
\* shape drops the fields the shape does not declare and fails on the others
ParseArgs(tool, arguments) ==
  IF Malformed(Shape(tool), arguments)
    THEN Throw(ErrorOf(InvalidArgumentsMsg))
    ELSE Return(Obj([f \in DOMAIN arguments.o \cap DOMAIN Shape(tool) |->
                       arguments.o[f]]))

\* new URLSearchParams, params.set(key, value) when present, for values of
\* letters, digits and underscores, which are not escaped
Param(key, present, value) ==
  IF present THEN <<key \o "=" \o ToStr(value)>> ELSE <<>>

RECURSIVE ParamsToString(_)
ParamsToString(params) ==
  IF params = <<>> THEN ""
  ELSE IF Len(params) = 1 THEN params[1]
  ELSE params[1] \o "&" \o ParamsToString(Tail(params))

\* `${path}${queryString ? `?${queryString}` : ''}`
WithQuery(path, params) ==
  IF ParamsToString(params) # "" THEN path \o "?" \o ParamsToString(params) ELSE path

\* api.ts 86-88
GetSources == [method |-> "GET", suffix |-> "/sources", body |-> Undef]

\* api.ts 90-92
GetSource(sourceId) ==
  [method |-> "GET", suffix |-> "/sources/" \o ToStr(sourceId), body |-> Undef]

\* the api call of a later step of hookbase_get_event_debug
DebugCall(call) ==
  [tool |-> "hookbase_get_event_debug", method |-> call.method,
   suffix |-> call.suffix, body |-> call.body]

\* api.ts 360-362
GetEvent(eventId) ==
  [method |-> "GET", suffix |-> "/events/" \o ToStr(eventId), body |-> Undef]

\* api.ts 606-623
GetWebhookApplications(options) ==
  [method |-> "GET",
   suffix |-> WithQuery("/webhook-applications",
                Param("search", Truthy(options.search), options.search)
                \o Param("isDisabled", options.isDisabled # Undef, options.isDisabled)
                \o Param("limit", Truthy(options.limit), options.limit)
                \o Param("cursor", Truthy(options.cursor), options.cursor)),
   body |-> Undef]

\* api.ts 625-627
GetWebhookApplication(appId) ==
  [method |-> "GET", suffix |-> "/webhook-applications/" \o ToStr(appId), body |-> Undef]

\* api.ts 640-653
UpdateWebhookApplication(appId, data) ==
  [method |-> "PATCH", suffix |-> "/webhook-applications/" \o ToStr(appId),
   body |-> Obj(data)]

\* api.ts 705-724
GetWebhookEndpoints(options) ==
  [method |-> "GET",
   suffix |-> WithQuery("/webhook-endpoints",
                Param("applicationId", Truthy(options.applicationId), options.applicationId)
                \o Param("isDisabled", options.isDisabled # Undef, options.isDisabled)
                \o Param("circuitState", Truthy(options.circuitState), options.circuitState)
                \o Param("limit", Truthy(options.limit), options.limit)
                \o Param("cursor", Truthy(options.cursor), options.cursor)),
   body |-> Undef]

\* api.ts 726-728
GetWebhookEndpoint(endpointId) ==
  [method |-> "GET", suffix |-> "/webhook-endpoints/" \o ToStr(endpointId), body |-> Undef]

\* api.ts 743-758
UpdateWebhookEndpoint(endpointId, data) ==
  [method |-> "PATCH", suffix |-> "/webhook-endpoints/" \o ToStr(endpointId),
   body |-> Obj(data)]

\* a bug: a false is_enabled is dropped like an absent one
IsDisabledOf_DropFalse(args) ==
  IF Truthy(Prop(args, "is_enabled").v) THEN Bool(FALSE) ELSE Undef

\* args.is_enabled !== undefined ? !args.is_enabled : undefined
IsDisabledOf(args) ==
  IF Prop(args, "is_enabled").v # Undef
    THEN Bool(~Truthy(Prop(args, "is_enabled").v))
    ELSE Undef

\* the api call that tool.handler(args) makes first
ApiCallOf(tool, args) ==
  LET a(key) == Prop(args, key).v
      call ==
        CASE tool = "hookbase_list_sources" -> GetSources
          [] tool = "hookbase_get_event_debug" -> GetEvent(a("event_id"))
          [] tool = "hookbase_list_applications" ->
               GetWebhookApplications([search |-> a("search"),
                                       isDisabled |-> IsDisabledOf(args),
                                       limit |-> a("limit"),
                                       cursor |-> a("cursor")])
          [] tool = "hookbase_get_application" ->
               GetWebhookApplication(a("application_id"))
          [] tool = "hookbase_update_application" ->
               UpdateWebhookApplication(a("application_id"),
                 [name |-> a("name"), metadata |-> a("metadata"),
                  rateLimitPerSecond |-> a("rate_limit_per_second"),
                  rateLimitPerMinute |-> a("rate_limit_per_minute"),
                  rateLimitPerHour |-> a("rate_limit_per_hour"),
                  isDisabled |-> IsDisabledOf(args),
                  disabledReason |-> a("disabled_reason")])
          [] tool = "hookbase_list_endpoints" ->
               GetWebhookEndpoints([applicationId |-> a("application_id"),
                                    isDisabled |-> IsDisabledOf(args),
                                    circuitState |-> a("circuit_state"),
                                    limit |-> a("limit"),
                                    cursor |-> a("cursor")])
          [] tool = "hookbase_get_endpoint" -> GetWebhookEndpoint(a("endpoint_id"))
          [] tool = "hookbase_update_endpoint" ->
               UpdateWebhookEndpoint(a("endpoint_id"),
                 [url |-> a("url"), description |-> a("description"),
                  headers |-> a("headers"),
                  timeoutSeconds |-> a("timeout_seconds"),
                  isDisabled |-> IsDisabledOf(args),
                  disabledReason |-> a("disabled_reason"),
                  circuitFailureThreshold |-> a("circuit_failure_threshold"),
                  circuitSuccessThreshold |-> a("circuit_success_threshold"),
                  circuitCooldownSeconds |-> a("circuit_cooldown_seconds")])
  IN [tool |-> tool, method |-> call.method, suffix |-> call.suffix,
      body |-> call.body]

(***************************************************************************)
(* The tool handlers (tools/sources.ts) and the adapter callback           *)
(* (server.ts)                                                             *)
(***************************************************************************)
\* a bug: every source is reported active
IsActive_AlwaysTrue(s) == Bool(TRUE)

\* s.is_active === 1
IsActive(s) == Bool(Prop(s, "is_active").v = Num(1))

\* the element list_sources makes of a source s
SourceSummary(s) ==
  IF s.t \in {"null", "undefined"}
    THEN Throw(ErrorOf("Cannot read properties of " \o s.t))
  ELSE
  LET p(key) == Prop(s, key).v
  IN Return(Obj([id |-> p("id"),
                 name |-> p("name"),
                 slug |-> p("slug"),
                 provider |-> p("provider"),
                 isActive |-> IsActive(s),
                 transientMode |-> Nullish(p("transientMode"),
                                           Bool(p("transient_mode") = Num(1))),
                 eventCount |-> Nullish(Nullish(p("event_count"), p("eventCount")), Num(0)),
                 routeCount |-> Nullish(Nullish(p("route_count"), p("routeCount")), Num(0)),
                 createdAt |-> p("created_at")]))

\* sources.map(s => ({...}))
RECURSIVE MapSources(_)
MapSources(q) ==
  IF q = <<>> THEN Return(<<>>)
  ELSE LET head == SourceSummary(Head(q))
           rest == MapSources(Tail(q))
       IN IF head.k = "throw" THEN head
          ELSE IF rest.k = "throw" THEN rest
          ELSE Return(<<head.v>> \o rest.v)

\* the handler of hookbase_list_sources, given the envelope of getSources
ListSourcesHandler(result) ==
  IF "error" \in DOMAIN result /\ Truthy(result.error)
    THEN Return(Obj([error |-> result.error]))
  ELSE
  LET data == IF "data" \in DOMAIN result THEN result.data ELSE Undef IN
  IF data.t \in {"null", "undefined"} THEN Return(Obj([sources |-> Undef]))
  ELSE
  LET sources == Prop(data, "sources").v IN
  IF sources.t \in {"null", "undefined"}
    THEN Throw(ErrorOf("Cannot read properties of " \o sources.t))
  ELSE IF sources.t # "array"
    THEN Throw(ErrorOf("result.data?.sources.map is not a function"))
  ELSE LET list == MapSources(sources.a)
       IN IF list.k = "throw" THEN list
          ELSE Return(Obj([sources |-> Arr(list.v)]))

\* the handler of hookbase_create_source, given the envelope of createSource
CreateSourceHandler(result) ==
  IF "error" \in DOMAIN result /\ Truthy(result.error)
    THEN Return(Obj([error |-> result.error]))
  ELSE
  LET data == IF "data" \in DOMAIN result THEN result.data ELSE Undef
      s == IF data.t \in {"null", "undefined"} THEN Undef ELSE Prop(data, "source").v
      p(key) == Prop(s, key).v
  IN Return(Obj([message |-> Str("Source created successfully"),
                 source |-> IF Truthy(s)
                              THEN Obj([id |-> p("id"), name |-> p("name"),
                                        slug |-> p("slug"), provider |-> p("provider"),
                                        signingSecret |-> p("signing_secret")])
                              ELSE JNull]))

\* if (result.error)
EnvelopeError(result) == "error" \in DOMAIN result /\ Truthy(result.error)

\* result.data
EnvelopeData(result) == IF "data" \in DOMAIN result THEN result.data ELSE Undef

\* v?.key
Opt(v, key) == IF v.t \in {"null", "undefined"} THEN Undef ELSE Prop(v, key).v

\* the handler stops at the await of a further api call, keeping its locals
Await(op, first) == [k |-> "await", op |-> op, first |-> first]

\* key.toLowerCase(), for the header names of the events of this model
LowerCase(key) ==
  CASE key = "Host" -> "host"
    [] key = "X-Forwarded-For" -> "x-forwarded-for"
    [] key = "Content-Type" -> "content-type"
    [] OTHER -> key

\* events.ts 135: the headers left out of the command
SkippedHeader(key) ==
  StartsWith(LowerCase(key), "x-forwarded") \/ LowerCase(key) = "host"

\* events.ts 133-139: one -H option per header that is kept, in the order of
\* Object.entries (the events of this model keep at most one header)
RECURSIVE CurlHeaders(_, _)
CurlHeaders(headers, keys) ==
  IF keys = {} THEN ""
  ELSE LET key == CHOOSE x \in keys : TRUE
       IN (IF SkippedHeader(key) THEN ""
           ELSE " \\\n  -H '" \o key \o ": " \o ToStr(headers.o[key]) \o "'")
          \o CurlHeaders(headers, keys \ {key})

\* JSON.stringify(v) as text, for strings and objects of strings
RECURSIVE JsonMembers(_, _)
JsonMembers(o, keys) ==
  IF keys = {} THEN ""
  ELSE LET key == CHOOSE x \in keys : TRUE
           rest == keys \ {key}
       IN "\"" \o key \o "\":\"" \o ToStr(o[key]) \o "\""
          \o (IF rest = {} THEN "" ELSE ",") \o JsonMembers(o, rest)

JsonText(v) ==
  CASE v.t = "string" -> "\"" \o v.s \o "\""
    [] v.t = "object" -> "{" \o JsonMembers(v.o, DOMAIN v.o) \o "}"
    [] OTHER -> ToStr(v)

\* events.ts 144: payloadStr.replace(/'/g, "'\\''")
RECURSIVE EscapeQuotes(_)
EscapeQuotes(str) ==
  IF str = "" THEN ""
  ELSE (IF SubSeq(str, 1, 1) = "'" THEN "'\\''" ELSE SubSeq(str, 1, 1))
       \o EscapeQuotes(SubSeq(str, 2, Len(str)))

\* events.ts 129-145: the cURL command replaying event e through source
CurlCommand(config, e, source) ==
  LET ingestUrl == ToStr(config.apiUrl) \o "/ingest/" \o ToStr(Prop(source, "slug").v)
      headers == Prop(e, "headers").v
      payload == Prop(e, "payload").v
      payloadStr == IF payload.t = "string" THEN payload.s ELSE JsonText(payload)
  IN "curl -X " \o ToStr(Or(Prop(e, "method").v, Str("POST"))) \o " '" \o ingestUrl \o "'"
     \o (IF Truthy(headers) /\ headers.t = "object"
           THEN CurlHeaders(headers, DOMAIN headers.o) ELSE "")
     \o (IF Truthy(payload)
           THEN " \\\n  -d '" \o EscapeQuotes(payloadStr) \o "'" ELSE "")

\* a bug: the source is looked up whatever the event read came to
GetEventDebugEvent_AlwaysLookup(result) ==
  LET e == Opt(EnvelopeData(result), "event")
      config == GetConfig
  IN IF config.k = "throw" THEN config
     ELSE Await(DebugCall(GetSource(Opt(e, "source_id"))),
                [result |-> result, e |-> e, config |-> config.v])

\* events.ts 108-119: the handler of hookbase_get_event_debug, given the
\* envelope of getEvent, up to the await of getSource
GetEventDebugEvent(result) ==
  IF EnvelopeError(result) THEN Return(Obj([error |-> result.error]))
  ELSE
  LET e == Opt(EnvelopeData(result), "event") IN
  IF ~Truthy(e) THEN Return(Obj([error |-> Str("Event not found")]))
  ELSE
  LET config == GetConfig IN
  IF config.k = "throw" THEN config
  ELSE Await(DebugCall(GetSource(Prop(e, "source_id").v)),
             [result |-> result, e |-> e, config |-> config.v])

\* a bug: a failed source read is answered from the event read alone
GetEventDebugSource_KeepEvent(first, sourceResult) ==
  LET e == first.e
      source == Opt(EnvelopeData(sourceResult), "source")
  IN Return(Obj([eventId |-> Prop(e, "id").v,
                 sourceName |-> Prop(e, "source_name").v,
                 curl |-> Str(CurlCommand(first.config, e,
                                          IF Truthy(source) THEN source ELSE Obj([x \in {} |-> Undef]))),
                 error |-> IF EnvelopeError(sourceResult)
                             THEN sourceResult.error ELSE Undef]))

\* a bug: a failed source read is tried once more
GetEventDebugSource_Retry(first, sourceResult) ==
  IF EnvelopeError(sourceResult)
    THEN Await(DebugCall(GetSource(Prop(first.e, "source_id").v)), first)
    ELSE Return(Obj([error |-> Str("Source not found")]))

\* events.ts 119-153: the same handler from the envelope of getSource on
GetEventDebugSource(first, sourceResult) ==
  IF EnvelopeError(sourceResult)
    THEN Return(Obj([error |-> Str("Failed to fetch source: "
                                     \o ToStr(sourceResult.error))]))
  ELSE
  LET e == first.e
      source == Opt(EnvelopeData(sourceResult), "source")
  IN IF ~Truthy(source) THEN Return(Obj([error |-> Str("Source not found")]))
     ELSE Return(Obj([eventId |-> Prop(e, "id").v,
                      sourceName |-> Prop(e, "source_name").v,
                      curl |-> Str(CurlCommand(first.config, e, source)),
                      note |-> Str("This cURL command will replay the event through the ingest endpoint.")]))

\* the properties of record that are copied under their own names
Pick(record, keys) == [key \in keys |-> Prop(record, key).v]

\* !(app.isDisabled === 1 || app.isDisabled === true)
IsEnabled(record) ==
  Bool(~(Prop(record, "isDisabled").v = Num(1) \/ Prop(record, "isDisabled").v = Bool(TRUE)))

\* array.map(item) for a reshaping item that throws on a null element
MapItems(array, items) ==
  IF \E k \in DOMAIN array : array[k].t \in {"null", "undefined"}
    THEN Throw(ErrorOf("Cannot read properties of null"))
    ELSE Return(Arr(items))

\* part_002 39-51: one application of the list
ApplicationSummary(app) ==
  Obj(Pick(app, {"id", "name", "externalId", "rateLimitPerSecond",
                 "rateLimitPerMinute", "rateLimitPerHour", "createdAt"})
      @@ [isEnabled |-> IsEnabled(app),
          totalEndpoints |-> Nullish(Prop(app, "totalEndpoints").v, Num(0)),
          totalMessagesSent |-> Nullish(Prop(app, "totalMessagesSent").v, Num(0)),
          totalMessagesFailed |-> Nullish(Prop(app, "totalMessagesFailed").v, Num(0))])

\* part_002 214-227: one endpoint of the list
EndpointSummary(ep) ==
  Obj(Pick(ep, {"id", "applicationId", "url", "description", "circuitState",
                "avgResponseTimeMs", "subscriptionCount", "createdAt"})
      @@ [isEnabled |-> IsEnabled(ep),
          totalMessages |-> Nullish(Prop(ep, "totalMessages").v, Num(0)),
          totalSuccesses |-> Nullish(Prop(ep, "totalSuccesses").v, Num(0)),
          totalFailures |-> Nullish(Prop(ep, "totalFailures").v, Num(0))])

\* the handlers of hookbase_list_applications and hookbase_list_endpoints,
\* given the envelope of the list read: result.data?.data?.map(...) ?? []
ListHandler(result, field) ==
  IF EnvelopeError(result) THEN Return(Obj([error |-> result.error]))
  ELSE
  LET data == EnvelopeData(result)
      list == Opt(data, "data")
      pagination == Opt(data, "pagination")
      mapped == IF list.t \in {"null", "undefined"} THEN Return(Arr(<<>>))
                ELSE IF list.t # "array"
                  THEN Throw(ErrorOf("result.data?.data?.map is not a function"))
                ELSE MapItems(list.a,
                              [k \in DOMAIN list.a |->
                                 IF field = "applications"
                                   THEN ApplicationSummary(list.a[k])
                                   ELSE EndpointSummary(list.a[k])])
  IN IF mapped.k = "throw" THEN mapped
     ELSE Return(Obj((field :> mapped.v) @@ [pagination |-> pagination]))

ListApplicationsHandler(result) == ListHandler(result, "applications")

ListEndpointsHandler(result) == ListHandler(result, "endpoints")

\* the handler of hookbase_get_application, given the envelope of the read
GetApplicationHandler(result) ==
  IF EnvelopeError(result) THEN Return(Obj([error |-> result.error]))
  ELSE
  LET app == Opt(EnvelopeData(result), "data")
  IN Return(Obj([application |->
       IF Truthy(app)
         THEN Obj(Pick(app, {"id", "name", "externalId", "metadata", "disabledAt",
                             "disabledReason", "endpointCount", "lastEventAt",
                             "rateLimitPerSecond", "rateLimitPerMinute",
                             "rateLimitPerHour", "createdAt", "updatedAt"})
                  @@ [isEnabled |-> IsEnabled(app),
                      totalEndpoints |-> Nullish(Prop(app, "totalEndpoints").v, Num(0)),
                      totalMessagesSent |-> Nullish(Prop(app, "totalMessagesSent").v, Num(0)),
                      totalMessagesFailed |-> Nullish(Prop(app, "totalMessagesFailed").v, Num(0))])
         ELSE JNull]))

\* the handler of hookbase_get_endpoint, given the envelope of the read
GetEndpointHandler(result) ==
  IF EnvelopeError(result) THEN Return(Obj([error |-> result.error]))
  ELSE
  LET ep == Opt(EnvelopeData(result), "data")
  IN Return(Obj([endpoint |->
       IF Truthy(ep)
         THEN Obj(Pick(ep, {"id", "applicationId", "url", "description", "secretPrefix",
                            "hasSecret", "secretVersion", "headers", "timeoutSeconds",
                            "disabledAt", "disabledReason", "circuitState",
                            "circuitOpenedAt", "circuitFailureCount",
                            "circuitFailureThreshold", "circuitSuccessThreshold",
                            "circuitCooldownSeconds", "avgResponseTimeMs",
                            "lastSuccessAt", "lastFailureAt", "lastResponseStatus",
                            "verifiedAt", "createdAt", "updatedAt"})
                  @@ [isEnabled |-> IsEnabled(ep),
                      totalMessages |-> Nullish(Prop(ep, "totalMessages").v, Num(0)),
                      totalSuccesses |-> Nullish(Prop(ep, "totalSuccesses").v, Num(0)),
                      totalFailures |-> Nullish(Prop(ep, "totalFailures").v, Num(0)),
                      isVerified |-> Bool(Prop(ep, "isVerified").v = Num(1)
                                          \/ Prop(ep, "isVerified").v = Bool(TRUE))])
         ELSE JNull]))

\* the handlers of hookbase_update_application and hookbase_update_endpoint,
\* given the envelope of the update: the record is passed on as it came
UpdateHandler(result, message, field) ==
  IF EnvelopeError(result) THEN Return(Obj([error |-> result.error]))
  ELSE Return(Obj([message |-> Str(message)]
                  @@ (field :> Opt(EnvelopeData(result), "data"))))

UpdateApplicationHandler(result) ==
  UpdateHandler(result, "Application updated successfully", "application")

UpdateEndpointHandler(result) ==
  UpdateHandler(result, "Endpoint updated successfully", "endpoint")

\* a bug: a failure envelope is reshaped like a success
Handler_IgnoreError(tool, r) ==
  IF r.k = "throw" THEN r
  ELSE LET result == [x \in DOMAIN r.v \ {"error"} |-> r.v[x]]
       IN CASE tool = "hookbase_list_sources" -> ListSourcesHandler(result)
            [] tool = "hookbase_create_source" -> CreateSourceHandler(result)
            [] tool = "hookbase_list_applications" -> ListApplicationsHandler(result)
            [] tool = "hookbase_get_application" -> GetApplicationHandler(result)
            [] tool = "hookbase_update_application" -> UpdateApplicationHandler(result)
            [] tool = "hookbase_list_endpoints" -> ListEndpointsHandler(result)
            [] tool = "hookbase_get_endpoint" -> GetEndpointHandler(result)
            [] tool = "hookbase_update_endpoint" -> UpdateEndpointHandler(result)
            [] OTHER -> r

\* tool.handler, from the point where its api call has completed with r
Handler(tool, r) ==
  IF r.k = "throw" THEN r
  ELSE CASE tool = "hookbase_list_sources" -> ListSourcesHandler(r.v)
         [] tool = "hookbase_create_source" -> CreateSourceHandler(r.v)
         [] tool = "hookbase_list_applications" -> ListApplicationsHandler(r.v)
         [] tool = "hookbase_get_application" -> GetApplicationHandler(r.v)
         [] tool = "hookbase_update_application" -> UpdateApplicationHandler(r.v)
         [] tool = "hookbase_list_endpoints" -> ListEndpointsHandler(r.v)
         [] tool = "hookbase_get_endpoint" -> GetEndpointHandler(r.v)
         [] tool = "hookbase_update_endpoint" -> UpdateEndpointHandler(r.v)
         [] OTHER -> r

\* a bug: the result carries the number of invocations answered so far
TextResult_Numbered(v) ==
  [content |-> <<[type |-> "text", text |-> Json(JsonValue(v))]>>,
   sequence |-> Cardinality({i \in DOMAIN inv : inv[i].pc = "done"})]

\* the result the callback gives the host
TextResult(v) == [content |-> <<[type |-> "text", text |-> Json(JsonValue(v))]>>]
ErrorTextResult(v) ==
  [content |-> <<[type |-> "text", text |-> Json(JsonValue(v))]>>, isError |-> TRUE]

\* what reaches the host when the callback itself throws: the protocol
\* layer answers the call with a protocol error
ProtocolFault(e) == [fault |-> e]

\* error instanceof Error ? error.message : 'Unknown error'
AdapterMessageOf(e) == IF e.isError THEN e.message ELSE "Unknown error"

\* a bug: the callback has no catch clause
AdapterCallback_NoCatch(h) ==
  IF h.k = "throw" THEN ProtocolFault(h.e) ELSE TextResult(h.v)

\* the callback registered for each tool, given how the handler completed
AdapterCallback(h) ==
  IF h.k = "throw"
    THEN ErrorTextResult(Obj([error |-> Str(AdapterMessageOf(h.e))]))
    ELSE TextResult(h.v)

(***************************************************************************)
(* Tool invocations                                                        *)
(***************************************************************************)
\* the api function of a handler: orgPath builds the path and request runs
\* up to its fetch
ApiCall(op) ==
  LET path == OrgPath(op.suffix)
  IN IF path.k = "throw" THEN path ELSE RequestEntry(op.method, path.v, op.body)

\* the callback calls tool.handler(args), which runs up to the await of its
\* api call; an exception of getConfig leaves the handler and is caught by
\* the callback
HandlerEntry(args, op) ==
  LET req == ApiCall(op)
  IN IF req.k = "throw"
       THEN [pc |-> "done", args |-> args, op |-> op, req |-> None, fetches |-> 0,
             first |-> None, resp |-> None, ret |-> req,
             res |-> Handler(op.tool, req),
             out |-> AdapterCallback(Handler(op.tool, req))]
       ELSE [pc |-> "awaitFetch", args |-> args, op |-> op, req |-> req.v,
             fetches |-> 1, first |-> None, resp |-> None, ret |-> None,
             res |-> None, out |-> None]

\* the handler of invocation c goes on with the envelope r of the api call
\* it awaited
HandlerResume(c, r) ==
  IF c.op.tool = "hookbase_get_event_debug"
    THEN IF r.k = "throw" THEN r
         ELSE IF c.first = None THEN GetEventDebugEvent(r.v)
         ELSE GetEventDebugSource(c.first, r.v)
    ELSE Handler(c.op.tool, r)

\* the handler of invocation c makes its next api call: the envelope of the
\* call it awaited is kept and the next request is in flight; an exception
\* of getConfig leaves the handler and is caught by the callback
HandlerAwait(c, step, o, made) ==
  LET req == ApiCall(step.op)
  IN IF req.k = "throw"
       THEN [c EXCEPT !.pc = "done", !.resp = o, !.ret = req, !.fetches = made,
                      !.res = req, !.out = AdapterCallback(req)]
       ELSE [c EXCEPT !.op = step.op, !.first = step.first, !.req = req.v,
                      !.fetches = made + 1]

\* a bug: an invocation is admitted only when no other request is in flight
ToolCall_Serialized(i, op) ==
  /\ mainPc = "connected"
  /\ registered
  /\ inv[i].pc = "idle"
  /\ IF i = 1 THEN TRUE ELSE inv[i - 1].pc # "idle"
  /\ \A j \in DOMAIN inv : inv[j].pc # "awaitFetch"
  /\ inv' = [inv EXCEPT ![i] = HandlerEntry(None, op)]
  /\ UNCHANGED <<env, cachedConfig, ic, icResult, icOutcome, icCalls, icDone,
                 icFailures, lookups, mainPc, registered, prompts, logged>>

\* the host invokes a tool: the callback calls the handler, whose api function
\* builds the path with orgPath and calls request, which runs up to its fetch;
\* an exception of getConfig leaves the handler and is caught by the callback
ToolCall(i, op) ==
  /\ mainPc = "connected"
  /\ registered
  /\ inv[i].pc = "idle"
  /\ IF i = 1 THEN TRUE ELSE inv[i - 1].pc # "idle"
  /\ inv' = [inv EXCEPT ![i] = HandlerEntry(None, op)]
  /\ UNCHANGED <<env, cachedConfig, ic, icResult, icOutcome, icCalls, icDone,
                 icFailures, lookups, mainPc, registered, prompts, logged>>

\* the fetch of invocation i comes to o, request returns its envelope, the
\* handler goes on from its await: it reshapes the envelope and the callback
\* hands the result to the host, or it makes its next api call
FetchSettle(i, o) ==
  /\ inv[i].pc = "awaitFetch"
  /\ LET ret == RequestSettle(o)
         made == inv[i].fetches + RequestFetches(o) - 1
         step == HandlerResume(inv[i], ret)
     IN inv' = [inv EXCEPT ![i] =
                  IF step.k = "await"
                    THEN HandlerAwait(inv[i], step, o, made)
                    ELSE [@ EXCEPT !.pc = "done", !.resp = o, !.ret = ret,
                                   !.fetches = made, !.res = step,
                                   !.out = AdapterCallback(step)]]
  /\ UNCHANGED <<env, cachedConfig, ic, icResult, icOutcome, icCalls, icDone,
                 icFailures, lookups, mainPc, registered, prompts, logged>>

\* the host invokes a tool with the arguments it chose: the protocol layer
\* validates them against the registered schema and answers an invalid call
\* with a protocol error, the handler never running; otherwise the callback
\* calls the handler with the validated arguments
HostCall(i, tool, arguments) ==
  /\ mainPc = "connected"
  /\ registered
  /\ inv[i].pc = "idle"
  /\ IF i = 1 THEN TRUE ELSE inv[i - 1].pc # "idle"
  /\ LET call == [tool |-> tool, arguments |-> arguments]
         args == ParseArgs(tool, arguments)
     IN inv' = [inv EXCEPT ![i] =
                  IF args.k = "throw"
                    THEN [IdleInv EXCEPT !.pc = "done", !.args = call,
                                         !.out = ProtocolFault(args.e)]
                    ELSE HandlerEntry(call, ApiCallOf(tool, args.v))]
  /\ UNCHANGED <<env, cachedConfig, ic, icResult, icOutcome, icCalls, icDone,
                 icFailures, lookups, mainPc, registered, prompts, logged>>

Next ==
  \/ CreateServerStart
  \/ \E o \in AuthOutcomes : InitConfigSettle(o)
  \/ CreateServerResume
  \/ MainConnect
  \/ InitConfigAgain
  \/ \E i \in DOMAIN inv, op \in ApiOps : ToolCall(i, op)
  \/ \E i \in DOMAIN inv, o \in ApiOutcomes : FetchSettle(i, o)

Spec == Init /\ [][Next]_vars

(***************************************************************************)
(* Concurrent tool invocations: the same program started in an environment *)
(* that needs no identity lookup, with the host issuing several            *)
(* invocations whose fetches are in flight together                        *)
(***************************************************************************)
\* number of invocations the host has in flight together
MaxConcurrent == 2

\* the key is missing (resolution fails) or the key and the organization
\* are both given (resolution succeeds at once)
ToolEnvs ==
  [HOOKBASE_API_KEY : {Undef, Str("whr_k1")},
   HOOKBASE_API_URL : {Undef},
   HOOKBASE_ORG_ID : {Str("org_env")}]

ToolsInit ==
  /\ env \in ToolEnvs
  /\ cachedConfig = JNull
  /\ ic = IdleCall
  /\ icResult = None
  /\ icOutcome = None
  /\ icCalls = 0
  /\ icDone = 0
  /\ icFailures = 0
  /\ lookups = 0
  /\ mainPc = "start"
  /\ registered = FALSE
  /\ prompts = FALSE
  /\ logged = None
  /\ inv = [i \in 1..MaxConcurrent |-> IdleInv]

ToolsNext ==
  \/ CreateServerStart
  \/ CreateServerResume
  \/ MainConnect
  \/ \E i \in DOMAIN inv, op \in ApiOps : ToolCall(i, op)
  \/ \E i \in DOMAIN inv, o \in ApiOutcomes : FetchSettle(i, o)

SpecTools == ToolsInit /\ [][ToolsNext]_vars

(***************************************************************************)
(* Concurrent tool invocations together with prompt invocations            *)
(***************************************************************************)
\* prompts/index.ts 13-72: the constant text of hookbase_overview, which its
\* first line stands for
OverviewText == "# Hookbase MCP Server"

\* prompts/index.ts 162-183: the text of send_test_event
SendTestEventText(args, now) ==
  LET eventType == ToStr(Prop(args, "event_type").v)
      applicationId == Prop(args, "application_id").v
  IN "Send a test " \o eventType \o " event"
     \o (IF Truthy(applicationId)
           THEN " to application " \o ToStr(applicationId) ELSE "")
     \o ".\n\nUse hookbase_send_event with:\n- event_type: \"" \o eventType
     \o "\"\n- payload: A sample payload appropriate for this event type\n"
     \o (IF Truthy(applicationId)
           THEN "- application_id: \"" \o ToStr(applicationId) \o "\"" ELSE "")
     \o "\n- idempotency_key: A unique key like \"test-" \o ToStr(Num(now))
     \o "\"\n\nAfter sending:\n1. Note the eventId and messagesQueued count\n"
     \o "2. Use hookbase_list_outbound_messages to track delivery status\n"
     \o "3. If any fail, use hookbase_get_message_attempts to see details"

\* prompt.getPrompt(args), with now what Date.now() gives
GetPrompt(name, args, now) ==
  [messages |->
     <<[role |-> "user",
        content |-> [type |-> "text",
                     text |-> IF name = "hookbase_overview" THEN OverviewText
                              ELSE SendTestEventText(args, now)]]>>]

\* the prompt invocations the host makes
PromptInputs ==
  {[prompt |-> "hookbase_overview", arguments |-> Obj(NoFields)],
   [prompt |-> "send_test_event",
    arguments |-> Obj([event_type |-> Str("order.created")])],
   [prompt |-> "send_test_event",
    arguments |-> Obj([event_type |-> Str("order.created"),
                       application_id |-> Str("app_1")])]}

\* what Date.now() may give
Clock == {1, 2}

\* part_001 91-101: the host asks for a prompt: the callback returns
\* prompt.getPrompt(args), which reads no configuration and makes no request
PromptCall(i, p, now) ==
  /\ mainPc = "connected"
  /\ prompts
  /\ inv[i].pc = "idle"
  /\ IF i = 1 THEN TRUE ELSE inv[i - 1].pc # "idle"
  /\ inv' = [inv EXCEPT ![i] =
               [IdleInv EXCEPT !.pc = "done", !.args = p,
                               !.out = GetPrompt(p.prompt, p.arguments, now)]]
  /\ UNCHANGED <<env, cachedConfig, ic, icResult, icOutcome, icCalls, icDone,
                 icFailures, lookups, mainPc, registered, prompts, logged>>

ConcurrentNext ==
  \/ CreateServerStart
  \/ CreateServerResume
  \/ MainConnect
  \/ \E i \in DOMAIN inv, op \in ApiOps : ToolCall(i, op)
  \/ \E i \in DOMAIN inv, o \in ApiOutcomes : FetchSettle(i, o)
  \/ \E i \in DOMAIN inv, p \in PromptInputs, now \in Clock : PromptCall(i, p, now)

SpecConcurrent == ToolsInit /\ [][ConcurrentNext]_vars

(***************************************************************************)
(* Invocations with the arguments the host chose, and the answers the      *)
(* remote may give to the requests of the source and event tools           *)
(***************************************************************************)
\* number of invocations the host makes
MaxCalls == 2

\* an event as the remote returns it, with headers and a payload that holds
\* a quote, and one whose only header is left out and whose payload is an
\* object
Event1 ==
  Obj([id |-> Str("evt_1"), source_id |-> Str("src_1"), source_name |-> Str("GitHub"),
       method |-> Str("PUT"),
       headers |-> Obj([Host |-> Str("api.hookbase.app"),
                        Accept |-> Str("text/plain")]),
       payload |-> Str("it's")])

Event2 ==
  Obj([id |-> Str("evt_2"), source_id |-> Str("src_2"),
       headers |-> Obj(("X-Forwarded-For" :> Str("10.0.0.1"))),
       payload |-> Obj([a |-> Str("b")])])

\* the calls the host makes: valid ones, ones with a field the schema does
\* not declare, one without its required field and one with it ill-typed
CallInputs ==
  {[tool |-> "hookbase_list_sources", arguments |-> Obj(NoFields)],
   [tool |-> "hookbase_list_sources", arguments |-> Obj([foo |-> Str("bar")])],
   [tool |-> "hookbase_get_event_debug", arguments |-> Obj([event_id |-> Str("evt_1")])],
   [tool |-> "hookbase_get_event_debug", arguments |-> Obj(NoFields)],
   [tool |-> "hookbase_get_event_debug", arguments |-> Obj([event_id |-> Num(5)])],
   [tool |-> "hookbase_get_event_debug",
    arguments |-> Obj([event_id |-> Str("evt_1"), verbose |-> Bool(TRUE)])]}

\* what a fetch may come to whatever it asked for
FailureOutcomes ==
  {Reject(ErrorOf("fetch failed")),
   Response(500, Json(Obj([error |-> Str("Internal error")]))),
   Response(404, Json(Obj([message |-> Str("Not found")]))),
   Response(502, Invalid)}

\* what the fetch of request req may come to
RemoteOutcomes(req) ==
  FailureOutcomes \cup
  {Response(200, b) :
     b \in IF req = None THEN {}
           ELSE IF StartsWith(req.url, "https://api.hookbase.app/api/organizations/org_env/events/")
             THEN {Json(Obj([event |-> Event1])), Json(Obj([event |-> Event2])),
                   Json(Obj(NoFields)), Json(Obj([event |-> JNull]))}
           ELSE IF StartsWith(req.url, "https://api.hookbase.app/api/organizations/org_env/sources/")
             THEN {Json(Obj([source |-> Source1])), Json(Obj(NoFields))}
           ELSE SourceBodies}

CallsInit ==
  /\ env \in ToolEnvs
  /\ cachedConfig = JNull
  /\ ic = IdleCall
  /\ icResult = None
  /\ icOutcome = None
  /\ icCalls = 0
  /\ icDone = 0
  /\ icFailures = 0
  /\ lookups = 0
  /\ mainPc = "start"
  /\ registered = FALSE
  /\ prompts = FALSE
  /\ logged = None
  /\ inv = [i \in 1..MaxCalls |-> IdleInv]

CallsNext ==
  \/ CreateServerStart
  \/ CreateServerResume
  \/ MainConnect
  \/ \E i \in DOMAIN inv, c \in CallInputs : HostCall(i, c.tool, c.arguments)
  \/ \E i \in DOMAIN inv : \E o \in RemoteOutcomes(inv[i].req) : FetchSettle(i, o)

SpecCalls == CallsInit /\ [][CallsNext]_vars


(***************************************************************************)
(* Properties of the transport dispatcher                                  *)
(***************************************************************************)
\* request returned an envelope to invocation i
Returned(i) == inv[i].pc = "done" /\ inv[i].ret.k = "return"
\* the fetch of invocation i completed with an HTTP response
Answered(i) == inv[i].pc = "done" /\ inv[i].resp # None /\ inv[i].resp.k = "response"
\* the fetch of invocation i threw
Rejected(i) == inv[i].pc = "done" /\ inv[i].resp # None /\ inv[i].resp.k = "reject"

\* C1: every envelope request returns has exactly one of the fields data and
\* error, and a numeric status
C1_EnvelopeShape ==
  \A i \in Invs : Returned(i) =>
    LET e == inv[i].ret.v
    IN /\ ("data" \in DOMAIN e) # ("error" \in DOMAIN e)
       /\ "status" \in DOMAIN e
       /\ e.status \in Nat

C1_Witness ==
  \E i \in Invs : /\ Answered(i) /\ Returned(i)
                  /\ inv[i].resp.status = 404
                  /\ "error" \in DOMAIN inv[i].ret.v

\* body has a (non-empty) field key
HasField(body, key) ==
  /\ body.t = "json"
  /\ body.v.t = "object"
  /\ key \in DOMAIN body.v.o
  /\ Truthy(body.v.o[key])

\* what C2 promises as the error of a failed response: the body's error
\* field if present, else its message field, else "Request failed"
ClaimedError(body) ==
  IF HasField(body, "error") THEN body.v.o.error
  ELSE IF HasField(body, "message") THEN body.v.o.message
  ELSE Str("Request failed")

\* C2: every completed non-2xx response, whether or not its body parses as
\* JSON, gives a failure envelope with the real status code and the body's
\* error, else message, else "Request failed"
C2_FailureEnvelope ==
  \A i \in Invs : (Answered(i) /\ ~(inv[i].resp.status \in 200..299)) =>
    inv[i].ret = Return([error |-> ClaimedError(inv[i].resp.body),
                         status |-> inv[i].resp.status])

\* C3 as claimed: a thrown fetch gives status 0 with the exception's message
\* and no payload, and status 0 is returned in that case only
C3_StatusZeroOnlyWhenFetchThrows ==
  \A i \in Invs :
    /\ Rejected(i) =>
         inv[i].ret = Return([error |-> Str(inv[i].resp.e.message), status |-> 0])
    /\ (Returned(i) /\ inv[i].ret.v.status = 0) => Rejected(i)

\* C3 as amended: a thrown fetch gives status 0 with the exception's message
\* and no payload; status 0 is returned only when the fetch threw or the
\* completed response could not be read (a body that is not JSON, or a null
\* body under a failure status); no completed response has status 0
C3_StatusZero ==
  \A i \in Invs :
    /\ Rejected(i) =>
         inv[i].ret = Return([error |-> Str(inv[i].resp.e.message), status |-> 0])
    /\ (Returned(i) /\ inv[i].ret.v.status = 0) =>
         \/ Rejected(i)
         \/ inv[i].resp.body = Invalid
         \/ inv[i].resp.body = Json(JNull) /\ ~(inv[i].resp.status \in 200..299)
    /\ Answered(i) => inv[i].resp.status # 0

C3_Witness ==
  \E i \in Invs : Rejected(i) /\ Returned(i) /\ inv[i].ret.v.status = 0

\* C4 as claimed: every completed 2xx response gives the success status code,
\* no error field, and the parsed body as the payload
C4_EverySuccessIsPayload ==
  \A i \in Invs : (Answered(i) /\ inv[i].resp.status \in 200..299) =>
    /\ Returned(i)
    /\ inv[i].ret.v.status = inv[i].resp.status
    /\ "error" \notin DOMAIN inv[i].ret.v
    /\ inv[i].resp.body.t = "json" => inv[i].ret.v.data = inv[i].resp.body.v

\* C4 as amended: every completed 2xx response whose body parses as JSON gives
\* the parsed body verbatim as the payload, the success status code, and no
\* error field
C4_SuccessPayload ==
  \A i \in Invs :
    (Answered(i) /\ inv[i].resp.status \in 200..299 /\ inv[i].resp.body.t = "json") =>
      inv[i].ret = Return([data |-> inv[i].resp.body.v, status |-> inv[i].resp.status])

C4_Witness ==
  \E i \in Invs : /\ Answered(i)
                  /\ inv[i].resp = Response(200, Json(Obj([foo |-> Str("bar")])))
                  /\ inv[i].ret = Return([data |-> Obj([foo |-> Str("bar")]), status |-> 200])

\* C5: an invocation that found the configuration resolved has issued exactly
\* one HTTP request, while it waits and after any outcome
C5_OneRequest ==
  \A i \in Invs : (inv[i].pc # "idle" /\ inv[i].req # None) => inv[i].fetches = 1

C5_Witness ==
  \E i \in Invs : Rejected(i) /\ inv[i].req # None /\ inv[i].fetches = 1


(***************************************************************************)
(* Properties of the configuration resolver and of start-up                *)
(***************************************************************************)
\* C6: nothing of the tools happens before the start-up call of initConfig
\* has returned: no registration, no connection to the host, no invocation,
\* no request to the remote API
C6_NoToolBeforeResolution ==
  (\/ registered
   \/ mainPc = "connected"
   \/ \E i \in Invs : inv[i].pc # "idle" \/ inv[i].fetches > 0)
  => (icDone >= 1 /\ icResult # None)

C6_Witness ==
  /\ icDone >= 1
  /\ mainPc = "connected"
  /\ \E i \in Invs : inv[i].pc = "awaitFetch" /\ inv[i].fetches = 1

\* C7: once cachedConfig is set it never changes, whatever calls of
\* initConfig, getConfig and the tools follow
C7_CacheImmutable == [][cachedConfig # JNull => cachedConfig' = cachedConfig]_vars

\* C8: a call of initConfig that resolves to {error} leaves cachedConfig as
\* it was, and a call that resolves to {config}, also after failed ones, sets
\* cachedConfig to that configuration
C8_CacheOnlyOnSuccess ==
  [][icDone' # icDone =>
       /\ IsError(icResult') => cachedConfig' = cachedConfig
       /\ IsConfig(icResult') => cachedConfig' = icResult'.v.config]_vars

C8_Witness ==
  /\ icFailures >= 1
  /\ icResult # None
  /\ IsConfig(icResult)
  /\ cachedConfig = icResult.v.config

\* C9: every finished call of initConfig returned {config} or {error}; none
\* threw, whatever the environment and whatever the identity lookup came to
C9_InitConfigNeverThrows ==
  icResult # None => (IsError(icResult) \/ IsConfig(icResult))

C9_Witness ==
  /\ icOutcome = Response(200, Json(Obj([organizations |-> Arr(<<JNull>>)])))
  /\ icResult # None
  /\ IsError(icResult)

\* C10: with HOOKBASE_API_KEY missing, whatever the other variables are,
\* initConfig returns the missing-key error and no identity lookup is issued
C10_MissingKey ==
  ~Truthy(env.HOOKBASE_API_KEY) =>
    /\ lookups = 0
    /\ icResult # None => icResult = Return(ErrorResult(Str(MissingKeyMsg)))

C10_Witness ==
  /\ env.HOOKBASE_API_KEY = Undef
  /\ env.HOOKBASE_API_URL # Undef
  /\ env.HOOKBASE_ORG_ID # Undef
  /\ icDone >= 1
  /\ icResult = Return(ErrorResult(Str(MissingKeyMsg)))

\* the key is set (not empty) and does not start with whr_
BadPrefix(e) ==
  Truthy(e.HOOKBASE_API_KEY) /\ ~StartsWith(e.HOOKBASE_API_KEY.s, "whr_")

\* C11: with a key that is set and does not start with whr_, whatever the
\* organization override is, every initConfig call returns the invalid-format
\* error, no identity lookup is issued and the override is never cached
C11_InvalidFormat ==
  BadPrefix(env) =>
    /\ lookups = 0
    /\ cachedConfig = JNull
    /\ icResult # None => icResult = Return(ErrorResult(Str(InvalidFormatMsg)))

C11_Witness ==
  /\ env.HOOKBASE_API_KEY = Str("sk_live_1")
  /\ env.HOOKBASE_ORG_ID = Str("org_env")
  /\ icDone >= 1
  /\ icResult = Return(ErrorResult(Str(InvalidFormatMsg)))

\* the key passes the presence and prefix checks and HOOKBASE_ORG_ID is set
KeyAndOverride(e) ==
  /\ Truthy(e.HOOKBASE_API_KEY)
  /\ StartsWith(e.HOOKBASE_API_KEY.s, "whr_")
  /\ Truthy(e.HOOKBASE_ORG_ID)

\* C12: with a well-formed key and HOOKBASE_ORG_ID set, no identity lookup is
\* ever issued and every finished initConfig call has returned and cached
\* {apiUrl: HOOKBASE_API_URL or https://api.hookbase.app, apiKey: the key,
\* orgId: the override}
C12_OverrideResolves ==
  KeyAndOverride(env) =>
    /\ lookups = 0
    /\ ic.pc = "idle"
    /\ icDone >= 1 =>
         LET c == [apiUrl |-> IF env.HOOKBASE_API_URL = Undef
                                THEN Str("https://api.hookbase.app")
                                ELSE env.HOOKBASE_API_URL,
                   apiKey |-> env.HOOKBASE_API_KEY,
                   orgId |-> env.HOOKBASE_ORG_ID]
         IN icResult = Return(ConfigResult(c)) /\ cachedConfig = c

C12_Witness ==
  /\ KeyAndOverride(env)
  /\ env.HOOKBASE_API_URL = Str("http://localhost:8787")
  /\ icDone >= 1
  /\ cachedConfig # JNull
  /\ cachedConfig.apiUrl = Str("http://localhost:8787")
  /\ cachedConfig.orgId = Str("org_env")

\* what C13 promises as the message of a refused key: the body's error field
\* if present, else its message field, else "Invalid API key"
ClaimedAuthError(body) ==
  IF HasField(body, "error") THEN body.v.o.error
  ELSE IF HasField(body, "message") THEN body.v.o.message
  ELSE Str("Invalid API key")

\* the initConfig call that finishes in this step made an identity lookup
LookupFinishes == icDone' # icDone /\ icOutcome' # None

\* C13: an initConfig call whose identity lookup completed with a non-2xx
\* status returns the body's error, else its message, else "Invalid API key",
\* and leaves cachedConfig as it was
C13_AuthenticationFailed ==
  [][(LookupFinishes /\ icOutcome'.k = "response" /\ ~(icOutcome'.status \in 200..299)) =>
       /\ icResult' = Return(ErrorResult(ClaimedAuthError(icOutcome'.body)))
       /\ cachedConfig' = cachedConfig]_vars

\* the identity lookup came to a 2xx response whose body is a JSON object
\* that lists only organization objects, or has no list
LookupSucceeded(o) ==
  /\ o.k = "response"
  /\ o.status \in 200..299
  /\ o.body.t = "json"
  /\ o.body.v.t = "object"
  /\ "organizations" \in DOMAIN o.body.v.o =>
       /\ o.body.v.o.organizations.t = "array"
       /\ \A k \in DOMAIN o.body.v.o.organizations.a :
            o.body.v.o.organizations.a[k].t = "object"

\* the organizations such a response returns
ReturnedOrgs(o) ==
  IF "organizations" \in DOMAIN o.body.v.o THEN o.body.v.o.organizations.a ELSE <<>>

\* sub occurs in s
Contains(s, sub) ==
  \E k \in 1..(Len(s) - Len(sub) + 1) : SubSeq(s, k, k + Len(sub) - 1) = sub

\* C14: an initConfig call whose identity lookup returned two or more
\* organizations returns an error that starts with "Multiple organizations
\* found" and holds the name and the id of every one of them, and leaves
\* cachedConfig as it was
C14_AmbiguousOrganization ==
  [][(LookupFinishes /\ LookupSucceeded(icOutcome') /\ Len(ReturnedOrgs(icOutcome')) >= 2) =>
       /\ IsError(icResult')
       /\ StartsWith(icResult'.v.error.s, "Multiple organizations found")
       /\ \A k \in DOMAIN ReturnedOrgs(icOutcome') :
            LET org == ReturnedOrgs(icOutcome')[k]
            IN Contains(icResult'.v.error.s, org.o.name.s \o " (" \o org.o.id.s \o ")")
       /\ cachedConfig' = cachedConfig]_vars

C14_Witness ==
  /\ icOutcome = Response(200, Json(Obj([organizations |-> Arr(<<Org1, Org2>>)])))
  /\ icResult # None
  /\ IsError(icResult)
  /\ Contains(icResult.v.error.s, "Beta (org_2)")

\* C15: an initConfig call whose identity lookup returned exactly one
\* organization returns and caches a configuration with that organization's
\* id; and a tool invoked while that call is the latest finished one requests
\* <apiUrl>/api/organizations/<that id><suffix>
C15_SingleOrganization ==
  [][
    /\ (LookupFinishes /\ LookupSucceeded(icOutcome') /\ Len(ReturnedOrgs(icOutcome')) = 1) =>
         /\ IsConfig(icResult')
         /\ icResult'.v.config.orgId = ReturnedOrgs(icOutcome')[1].o.id
         /\ cachedConfig' = icResult'.v.config
    /\ \A i \in DOMAIN inv :
         (/\ inv[i].pc = "idle" /\ inv'[i].pc # "idle"
          /\ icOutcome # None /\ LookupSucceeded(icOutcome)
          /\ Len(ReturnedOrgs(icOutcome)) = 1) =>
           /\ inv'[i].req # None
           /\ inv'[i].req.url = ToStr(cachedConfig.apiUrl) \o "/api/organizations/"
                                   \o ReturnedOrgs(icOutcome)[1].o.id.s \o inv'[i].op.suffix
  ]_vars

C15_Witness ==
  /\ icOutcome = Response(200, Json(Obj([organizations |-> Arr(<<Org2>>)])))
  /\ cachedConfig # JNull
  /\ cachedConfig.orgId = Str("org_2")
  /\ \E i \in DOMAIN inv :
       /\ inv[i].req # None
       /\ inv[i].req.url = "https://api.hookbase.app/api/organizations/org_2/sources"

\* C16: an initConfig call whose identity lookup returned an empty list of
\* organizations, or none, returns the no-organization error and leaves
\* cachedConfig as it was
C16_NoOrganization ==
  [][(LookupFinishes /\ LookupSucceeded(icOutcome') /\ ReturnedOrgs(icOutcome') = <<>>) =>
       /\ icResult' = Return(ErrorResult(Str("No organizations found for this API key")))
       /\ cachedConfig' = cachedConfig]_vars

C16_Witness ==
  /\ icOutcome = Response(200, Json(Obj([organizations |-> Arr(<<>>)])))
  /\ icResult = Return(ErrorResult(Str(NoOrgsMsg)))

\* the latest finished initConfig call returned the error of the catch clause
NetworkError ==
  /\ icResult # None
  /\ IsError(icResult)
  /\ StartsWith(icResult.v.error.s, "Failed to validate API key: ")

\* C17 as claimed: a thrown fetch makes initConfig return "Failed to validate
\* API key: " followed by the exception's message, and that error is returned
\* in that case only, never for a completed HTTP response
C17_NetworkErrorOnlyWhenFetchThrows ==
  icOutcome # None =>
    /\ icOutcome.k = "reject" =>
         icResult = Return(ErrorResult(Str("Failed to validate API key: "
                                            \o icOutcome.e.message)))
    /\ NetworkError => icOutcome.k = "reject"

\* C17 as amended: a thrown fetch makes initConfig return "Failed to validate
\* API key: " followed by the exception's message; that error is returned only
\* when the fetch threw or the completed response could not be read: its body
\* is not JSON or is null, or (2xx) its organizations list holds a non-object
C17_NetworkError ==
  icOutcome # None =>
    /\ icOutcome.k = "reject" =>
         icResult = Return(ErrorResult(Str("Failed to validate API key: "
                                            \o icOutcome.e.message)))
    /\ NetworkError =>
         \/ icOutcome.k = "reject"
         \/ icOutcome.body = Invalid
         \/ icOutcome.body = Json(JNull)
         \/ icOutcome.status \in 200..299 /\ ~LookupSucceeded(icOutcome)
    /\ (icOutcome.k = "response" /\ icOutcome.body \in {Invalid, Json(JNull)}) => NetworkError

C17_Witness ==
  /\ icOutcome = Reject(ErrorOf("fetch failed"))
  /\ icResult = Return(ErrorResult(Str("Failed to validate API key: fetch failed")))
  /\ cachedConfig = JNull

\* C18: a tool invoked when no initConfig call has succeeded yet gets the
\* exception "Config not initialized. Call initConfig() first." from getConfig
\* and makes no request; a tool invoked after a success builds its request
\* from the cached configuration as it is; in both cases the invocation
\* issues no identity lookup and leaves the cache alone
C18_GetConfig ==
  [][\A i \in DOMAIN inv : (inv[i].pc = "idle" /\ inv'[i].pc # "idle") =>
       /\ icDone = icFailures =>
            /\ inv'[i].ret = Throw(ErrorOf("Config not initialized. Call initConfig() first."))
            /\ inv'[i].fetches = 0
       /\ icDone > icFailures =>
            /\ inv'[i].req # None
            /\ inv'[i].req.url = ToStr(cachedConfig.apiUrl) \o "/api/organizations/"
                                    \o ToStr(cachedConfig.orgId) \o inv'[i].op.suffix
            /\ inv'[i].req.headers.Authorization = "Bearer " \o ToStr(cachedConfig.apiKey)
       /\ lookups' = lookups
       /\ cachedConfig' = cachedConfig
       /\ ic' = ic]_vars

C18_Witness ==
  /\ env.HOOKBASE_ORG_ID = Undef
  /\ icDone = 2
  /\ icFailures = 1
  /\ cachedConfig # JNull
  /\ cachedConfig.orgId = Str("org_1")
  /\ \E i \in DOMAIN inv :
       /\ inv[i].req # None
       /\ inv[i].req.url = "https://api.hookbase.app/api/organizations/org_1/sources"

(***************************************************************************)
(* Properties of the adapter                                               *)
(***************************************************************************)
\* the result the host gets for an exception with message m
ErrorResultOf(m) ==
  [content |-> <<[type |-> "text", text |-> Json(Obj([error |-> Str(m)]))]>>,
   isError |-> TRUE]

\* createServer has come back from its await and no initConfig call, the
\* start-up one included, has succeeded
ConfigFailed == mainPc \notin {"start", "awaitInit"} /\ icDone >= 1 /\ icDone = icFailures

\* C19: when the start-up initConfig call fails, whatever its error, the
\* process does not exit and createServer registers the tools and the
\* prompts; and, while no resolution has succeeded, every tool invocation
\* ends at once with the error result {"error": "Config not initialized.
\* Call initConfig() first."}, which is not the diagnosis written at start-up,
\* without a request
C19_StartupFailure ==
  [][
    /\ ConfigFailed' =>
         /\ mainPc' \in {"created", "connected"}
         /\ registered' /\ prompts'
         /\ logged' # None
    /\ \A i \in DOMAIN inv : (ConfigFailed /\ inv[i].pc = "idle" /\ inv'[i].pc # "idle") =>
         /\ inv'[i].pc = "done"
         /\ inv'[i].out = ErrorResultOf("Config not initialized. Call initConfig() first.")
         /\ logged # Str("Configuration error: Config not initialized. Call initConfig() first.")
         /\ inv'[i].fetches = 0
         /\ inv'[i].req = None
  ]_vars

C19_Witness ==
  /\ ConfigFailed
  /\ logged = Str("Configuration error: Failed to validate API key: fetch failed")
  /\ mainPc = "connected"
  /\ registered /\ prompts
  /\ \E i \in DOMAIN inv :
       /\ inv[i].pc = "done"
       /\ inv[i].fetches = 0
       /\ inv[i].out = ErrorResultOf(NotInitializedMsg)

\* invocation i ends in this step with an exception thrown by its handler
HandlerThrows(i) ==
  /\ inv[i].pc # "done"
  /\ inv'[i].pc = "done"
  /\ inv'[i].res.k = "throw"

\* C20: when a tool handler throws, the host gets the error result whose
\* text is {"error": <the exception's message>} with isError set; no
\* invocation ever ends in a protocol fault, the process stays connected,
\* the step changes no other invocation, and what an invocation returns
\* depends on its own tool and its own fetch only, whatever its siblings did
C20_HandlerExceptionCaught ==
  [][
    /\ \A i \in DOMAIN inv : HandlerThrows(i) =>
         /\ inv'[i].out = ErrorResultOf(inv'[i].res.e.message)
         /\ mainPc = "connected" /\ mainPc' = "connected"
         /\ \A j \in DOMAIN inv \ {i} : inv'[j] = inv[j]
    /\ \A i \in DOMAIN inv : inv'[i].pc = "done" =>
         /\ "content" \in DOMAIN inv'[i].out
         /\ "fault" \notin DOMAIN inv'[i].out
         /\ ("isError" \in DOMAIN inv'[i].out) = (inv'[i].res.k = "throw")
    /\ \A i, j \in DOMAIN inv :
         (/\ inv'[i].pc = "done" /\ inv'[j].pc = "done"
          /\ inv'[i].op = inv'[j].op /\ inv'[i].resp = inv'[j].resp) =>
           inv'[i].out = inv'[j].out
  ]_vars

C20_Witness ==
  /\ cachedConfig # JNull
  /\ mainPc = "connected"
  /\ inv[1].pc = "done"
  /\ inv[1].op.tool = "hookbase_list_sources"
  /\ inv[1].resp = Response(200, Json(Obj([foo |-> Str("bar")])))
  /\ inv[1].out = ErrorResultOf("Cannot read properties of undefined")
  /\ inv[2].pc = "done"
  /\ inv[2].resp = Response(200, Json(Obj([sources |-> Arr(<<>>)])))
  /\ inv[2].out = [content |-> <<[type |-> "text",
                                  text |-> Json(Obj([sources |-> Arr(<<>>)]))]>>]

(***************************************************************************)
(* Properties of the tool handlers                                         *)
(***************************************************************************)
\* the sources a 2xx answer to GET /sources lists
ListedSources(o) == o.body.v.o.sources.a

\* invocation i is a finished hookbase_list_sources whose fetch was answered
\* with a 2xx body that lists sources
SourcesListed(i) ==
  /\ inv[i].pc = "done"
  /\ inv[i].op.tool = "hookbase_list_sources"
  /\ inv[i].resp # None
  /\ inv[i].resp.k = "response"
  /\ inv[i].resp.status \in 200..299
  /\ inv[i].resp.body.t = "json"
  /\ inv[i].resp.body.v.t = "object"
  /\ "sources" \in DOMAIN inv[i].resp.body.v.o
  /\ inv[i].resp.body.v.o.sources.t = "array"

\* C24: hookbase_list_sources issues one GET to
\* <apiUrl>/api/organizations/<orgId>/sources without a body, and for a 2xx
\* answer that lists sources returns one record per source, in the order
\* returned, with the source's id and isActive = (is_active is 1)
C24_ListSources ==
  \A i \in DOMAIN inv :
    /\ (inv[i].pc # "idle" /\ inv[i].op.tool = "hookbase_list_sources" /\ inv[i].req # None) =>
         /\ inv[i].fetches = 1
         /\ inv[i].req.method = "GET"
         /\ inv[i].req.body = Undef
         /\ \E id \in {"org_env", "org_1", "org_2"} :
              inv[i].req.url = ToStr(Or(env.HOOKBASE_API_URL, Str("https://api.hookbase.app")))
                                 \o "/api/organizations/" \o id \o "/sources"
    /\ SourcesListed(i) =>
         LET out == inv[i].out.content[1].text.v.o.sources.a
             src == ListedSources(inv[i].resp)
         IN /\ "isError" \notin DOMAIN inv[i].out
            /\ Len(out) = Len(src)
            /\ \A k \in DOMAIN src :
                 /\ out[k].o.id = src[k].o.id
                 /\ out[k].o.isActive = Bool(src[k].o.is_active = Num(1))

C24_Witness ==
  \E i \in DOMAIN inv :
    /\ SourcesListed(i)
    /\ Len(ListedSources(inv[i].resp)) = 2
    /\ inv[i].out.content[1].text.v.o.sources.a[1].o.isActive = Bool(TRUE)
    /\ inv[i].out.content[1].text.v.o.sources.a[2].o.isActive = Bool(FALSE)

\* C28: the request a tool invocation issues goes to <cached apiUrl><path>
\* with path starting /api/organizations/<cached orgId>, the cached apiUrl
\* being the configured one (HOOKBASE_API_URL or the default); it carries
\* Authorization: Bearer <cached apiKey> and Content-Type: application/json;
\* and it has a body exactly when the api function supplied one, the
\* serialized value of it
C28_RequestShape ==
  [][
    \A i \in DOMAIN inv : (inv[i].req # inv'[i].req /\ inv'[i].req # None) =>
      LET r == inv'[i].req
          base == ToStr(cachedConfig.apiUrl)
      IN /\ cachedConfig # JNull
         /\ cachedConfig.apiUrl = Or(env.HOOKBASE_API_URL, Str("https://api.hookbase.app"))
         /\ StartsWith(r.url, base \o "/api/organizations/" \o ToStr(cachedConfig.orgId) \o "/")
         /\ r.headers = [ContentType |-> "application/json",
                         Authorization |-> "Bearer " \o ToStr(cachedConfig.apiKey)]
         /\ r.method = inv'[i].op.method
         /\ (r.body # Undef) = (inv'[i].op.body # Undef)
         /\ r.body # Undef => r.body = Json(JsonValue(inv'[i].op.body))
  ]_vars

C28_Witness ==
  /\ env.HOOKBASE_API_URL = Str("http://localhost:8787")
  /\ env.HOOKBASE_ORG_ID = Undef
  /\ \E i \in DOMAIN inv :
       /\ inv[i].req # None
       /\ inv[i].req.method = "POST"
       /\ inv[i].req.url = "http://localhost:8787/api/organizations/org_2/sources"
       /\ inv[i].req.headers.Authorization = "Bearer whr_k1"
       /\ inv[i].req.body = Json(Obj([name |-> Str("s1"), slug |-> Str("s-1")]))

(***************************************************************************)
(* Invocations of the application and endpoint tools, whose flag            *)
(* is_enabled is stored by the remote as isDisabled                         *)
(***************************************************************************)
\* number of invocations the host makes
MaxFlagCalls == 2

\* the values the remote may hold in isDisabled
StoredFlags == {Bool(TRUE), Bool(FALSE), Num(1), Num(0)}

\* an application and an endpoint as the remote returns them
Application(flag) ==
  Obj([id |-> Str("app_1"), name |-> Str("Acme"), isDisabled |-> flag,
       totalEndpoints |-> Num(2)])

Endpoint(flag) ==
  Obj([id |-> Str("ep_1"), applicationId |-> Str("app_1"),
       url |-> Str("https://example.com/hook"), isDisabled |-> flag,
       isVerified |-> Num(1)])

Pagination == Obj([hasMore |-> Bool(FALSE), nextCursor |-> JNull])

\* arguments with is_enabled absent, true and false
WithIsEnabled(fields) ==
  {Obj(fields)} \cup {Obj(fields @@ [is_enabled |-> Bool(b)]) : b \in BOOLEAN}

FlagInputs ==
  {[tool |-> "hookbase_update_application", arguments |-> a] :
     a \in WithIsEnabled([application_id |-> Str("app_1")])} \cup
  {[tool |-> "hookbase_get_application",
    arguments |-> Obj([application_id |-> Str("app_1")])]} \cup
  {[tool |-> "hookbase_list_applications", arguments |-> a] :
     a \in WithIsEnabled(NoFields)} \cup
  {[tool |-> "hookbase_update_endpoint", arguments |-> a] :
     a \in WithIsEnabled([endpoint_id |-> Str("ep_1")])} \cup
  {[tool |-> "hookbase_get_endpoint",
    arguments |-> Obj([endpoint_id |-> Str("ep_1")])]} \cup
  {[tool |-> "hookbase_list_endpoints", arguments |-> a] :
     a \in WithIsEnabled(NoFields)}

ApplicationsUrl == "https://api.hookbase.app/api/organizations/org_env/webhook-applications"
EndpointsUrl == "https://api.hookbase.app/api/organizations/org_env/webhook-endpoints"

\* what the fetch of request req may come to: a failure, the record asked
\* for with any stored flag, or the list
FlagOutcomes(req) ==
  {Response(500, Json(Obj([error |-> Str("Internal error")])))} \cup
  {Response(200, b) :
     b \in IF req = None THEN {}
           ELSE IF StartsWith(req.url, ApplicationsUrl \o "/")
             THEN {Json(Obj([data |-> Application(f)])) : f \in StoredFlags}
           ELSE IF StartsWith(req.url, EndpointsUrl \o "/")
             THEN {Json(Obj([data |-> Endpoint(f)])) : f \in StoredFlags}
           ELSE IF StartsWith(req.url, ApplicationsUrl)
             THEN {Json(Obj([data |-> Arr(<<Application(Num(1)), Application(Bool(FALSE))>>),
                             pagination |-> Pagination]))}
           ELSE {Json(Obj([data |-> Arr(<<Endpoint(Bool(TRUE)), Endpoint(Num(0))>>),
                           pagination |-> Pagination]))}}

FlagsInit ==
  /\ env \in ToolEnvs
  /\ cachedConfig = JNull
  /\ ic = IdleCall
  /\ icResult = None
  /\ icOutcome = None
  /\ icCalls = 0
  /\ icDone = 0
  /\ icFailures = 0
  /\ lookups = 0
  /\ mainPc = "start"
  /\ registered = FALSE
  /\ prompts = FALSE
  /\ logged = None
  /\ inv = [i \in 1..MaxFlagCalls |-> IdleInv]

FlagsNext ==
  \/ CreateServerStart
  \/ CreateServerResume
  \/ MainConnect
  \/ \E i \in DOMAIN inv, c \in FlagInputs : HostCall(i, c.tool, c.arguments)
  \/ \E i \in DOMAIN inv : \E o \in FlagOutcomes(inv[i].req) : FetchSettle(i, o)

SpecFlags == FlagsInit /\ [][FlagsNext]_vars

(***************************************************************************)
(* Claims about the tool handlers                                          *)
(***************************************************************************)
\* invocation i is a call of tool
CallOf(i, tool) == inv[i].args # None /\ inv[i].args.tool = tool

\* the host has the result of invocation i, and it is the text of an object
ObjectResult(i) ==
  /\ inv[i].pc = "done"
  /\ "content" \in DOMAIN inv[i].out
  /\ inv[i].out.content[1].text.v.t = "object"

\* the object the host gets from invocation i
ResultOf(i) == inv[i].out.content[1].text.v.o

\* the result of invocation i is an object with an error field
ErrorAnswer(i) == ObjectResult(i) /\ "error" \in DOMAIN ResultOf(i)

\* envelope is a success envelope that holds an event
HoldsEvent(envelope) ==
  /\ "error" \notin DOMAIN envelope
  /\ ResponseOk(envelope.status)
  /\ Truthy(Opt(envelope.data, "event"))

\* C30: in hookbase_get_event_debug the source lookup is issued only after
\* the event lookup has returned a success envelope that holds an event; an
\* invocation whose event read failed or returned no event has issued
\* exactly one request, has attempted no source read and ends in an error
C30_SourceAfterEvent ==
  \A i \in DOMAIN inv : CallOf(i, "hookbase_get_event_debug") =>
    /\ inv[i].fetches <= 2
    /\ (inv[i].fetches = 2 \/ inv[i].first # None) =>
         /\ inv[i].first # None
         /\ HoldsEvent(inv[i].first.result)
         /\ inv[i].req.url = "https://api.hookbase.app/api/organizations/org_env/sources/"
                               \o ToStr(Prop(inv[i].first.e, "source_id").v)
    /\ (inv[i].pc = "done" /\ inv[i].resp # None /\ inv[i].first = None) =>
         /\ ~HoldsEvent(inv[i].ret.v)
         /\ inv[i].fetches = 1
         /\ inv[i].req.url = "https://api.hookbase.app/api/organizations/org_env/events/evt_1"
         /\ ErrorAnswer(i)
    /\ (inv[i].pc = "awaitFetch" /\ inv[i].first = None) =>
         /\ inv[i].fetches = 1
         /\ inv[i].req.url = "https://api.hookbase.app/api/organizations/org_env/events/evt_1"

\* an event read that failed: one request, an error
C30_Witness ==
  \E i \in DOMAIN inv :
    /\ CallOf(i, "hookbase_get_event_debug")
    /\ inv[i].pc = "done"
    /\ inv[i].resp = Response(200, Json(Obj([event |-> JNull])))
    /\ inv[i].fetches = 1
    /\ ResultOf(i) = [error |-> Str("Event not found")]

\* the source read of invocation i was made and failed
SourceReadFailed(i) ==
  /\ CallOf(i, "hookbase_get_event_debug")
  /\ inv[i].pc = "done"
  /\ inv[i].first # None
  /\ inv[i].resp # None
  /\ (inv[i].ret.v.status = 0 \/ ~ResponseOk(inv[i].ret.v.status))

\* C22: in hookbase_get_event_debug, when the event read succeeded and the
\* source read fails, the result is an object whose only field is error,
\* holding the source read's error: no event id, source name or command
C22_SourceReadFailure ==
  \A i \in DOMAIN inv : SourceReadFailed(i) =>
    /\ HoldsEvent(inv[i].first.result)
    /\ ObjectResult(i)
    /\ DOMAIN ResultOf(i) = {"error"}
    /\ ResultOf(i).error =
         Str("Failed to fetch source: " \o ToStr(inv[i].ret.v.error))
    /\ "isError" \notin DOMAIN inv[i].out

\* the event read returned Event1 and the source read was answered 500
C22_Witness ==
  \E i \in DOMAIN inv :
    /\ SourceReadFailed(i)
    /\ inv[i].first.e = Event1
    /\ inv[i].fetches = 2
    /\ inv[i].resp = Response(500, Json(Obj([error |-> Str("Internal error")])))
    /\ ResultOf(i) = [error |-> Str("Failed to fetch source: Internal error")]

\* the requests a call of tool may make
DispatchLimit(tool) == IF tool = "hookbase_get_event_debug" THEN 2 ELSE 1

\* C26: an invocation of a tool other than hookbase_get_event_debug makes at
\* most one request and one of hookbase_get_event_debug at most two, made
\* one after the other: the second is made in the step in which the first
\* completes with the event, and it is the only request then in flight
C26_DispatchCount ==
  [][
    \A i \in DOMAIN inv : inv'[i].args # None =>
      /\ inv'[i].fetches <= DispatchLimit(inv'[i].args.tool)
      /\ inv'[i].fetches \in {inv[i].fetches, inv[i].fetches + 1}
      /\ (inv[i].fetches = 1 /\ inv'[i].fetches = 2) =>
           /\ inv[i].pc = "awaitFetch"
           /\ inv[i].first = None
           /\ inv'[i].pc = "awaitFetch"
           /\ inv'[i].first # None
           /\ HoldsEvent(inv'[i].first.result)
           /\ inv'[i].req # inv[i].req
      /\ (inv'[i].pc = "awaitFetch") => inv'[i].resp = None
  ]_vars

\* both reads of hookbase_get_event_debug were made and the command is built
C26_Witness ==
  \E i \in DOMAIN inv :
    /\ CallOf(i, "hookbase_get_event_debug")
    /\ inv[i].pc = "done"
    /\ inv[i].fetches = 2
    /\ inv[i].first # None
    /\ inv[i].first.e = Event1
    /\ ObjectResult(i)
    /\ "curl" \in DOMAIN ResultOf(i)
    /\ ResultOf(i).eventId = Str("evt_1")
    /\ ResultOf(i).curl =
         Str("curl -X PUT 'https://api.hookbase.app/ingest/github'"
             \o " \\\n  -H 'Accept: text/plain'" \o " \\\n  -d 'it'\\''s'")

\* the request that invocation i awaited last came back as a failure
\* envelope: status 0 or a status outside 200..299
DispatchFailed(i) ==
  /\ inv[i].pc = "done"
  /\ inv[i].resp # None
  /\ inv[i].ret.k = "return"
  /\ (inv[i].ret.v.status = 0 \/ ~ResponseOk(inv[i].ret.v.status))

\* C21: an invocation whose request came back as a failure envelope gives
\* the host an object with an error field and nothing else: no reshaped
\* resource data
C21_FailureIsError ==
  \A i \in DOMAIN inv : DispatchFailed(i) =>
    /\ ObjectResult(i)
    /\ DOMAIN ResultOf(i) = {"error"}
    /\ Truthy(ResultOf(i).error)

\* hookbase_list_sources answered 404 with a message
C21_Witness ==
  \E i \in DOMAIN inv :
    /\ CallOf(i, "hookbase_list_sources")
    /\ DispatchFailed(i)
    /\ inv[i].resp = Response(404, Json(Obj([message |-> Str("Not found")])))
    /\ ResultOf(i) = [error |-> Str("Not found")]

\* the host has made invocation i with arguments its tool's schema does not
\* accept as a closed schema: an undeclared field, a missing required field
\* or a field of the wrong type
BadArguments(i) ==
  /\ inv[i].args # None
  /\ \/ Undeclared(Shape(inv[i].args.tool), inv[i].args.arguments)
     \/ Malformed(Shape(inv[i].args.tool), inv[i].args.arguments)

\* C23: an invocation whose arguments hold a field the tool's schema does
\* not declare, lack a required field or hold an ill-typed one is rejected
\* before the handler runs and before any request is issued
C23_StrictArguments ==
  \A i \in DOMAIN inv : BadArguments(i) =>
    /\ inv[i].pc = "done"
    /\ "fault" \in DOMAIN inv[i].out
    /\ inv[i].op = None
    /\ inv[i].req = None
    /\ inv[i].fetches = 0

UpdateTools == {"hookbase_update_application", "hookbase_update_endpoint"}
ListTools == {"hookbase_list_applications", "hookbase_list_endpoints"}
GetTools == {"hookbase_get_application", "hookbase_get_endpoint"}

\* invocation i has issued its request
Issued(i) == inv[i].args # None /\ inv[i].req # None

\* the arguments of invocation i hold is_enabled
FlagGiven(i) == "is_enabled" \in DOMAIN inv[i].args.arguments.o

\* the isDisabled the claim has sent for the is_enabled of invocation i
ClaimedIsDisabled(i) == Bool(~inv[i].args.arguments.o.is_enabled.b)

\* the collection URL of the tool of invocation i
CollectionUrl(i) ==
  IF inv[i].args.tool \in {"hookbase_list_applications", "hookbase_get_application",
                           "hookbase_update_application"}
    THEN ApplicationsUrl ELSE EndpointsUrl

\* invocation i has its record or list from a 2xx answer
ReadBack(i) ==
  /\ inv[i].args # None
  /\ inv[i].pc = "done"
  /\ inv[i].resp # None
  /\ inv[i].resp.k = "response"
  /\ ResponseOk(inv[i].resp.status)

\* the enabled flag the claim derives from a record of the remote
ClaimedIsEnabled(record) ==
  Bool(~(record.o.isDisabled = Bool(TRUE) \/ record.o.isDisabled = Num(1)))

\* the record that a get tool hands to the host
RecordOf(i) ==
  IF inv[i].args.tool = "hookbase_get_application"
    THEN ResultOf(i).application ELSE ResultOf(i).endpoint

\* the list that a list tool hands to the host
ListOf(i) ==
  IF inv[i].args.tool = "hookbase_list_applications"
    THEN ResultOf(i).applications ELSE ResultOf(i).endpoints

\* stored is how a remote that keeps the flag faithfully holds sent
Faithful(stored, sent) ==
  stored \in {sent, Num(IF sent.b THEN 1 ELSE 0)}

\* C29: for the application and endpoint tools a given is_enabled = b is
\* sent as isDisabled = NOT b (in the body of an update, in the query of a
\* list), false as well as true, and an absent is_enabled sends no
\* isDisabled; the isEnabled handed to the host is NOT (isDisabled is true
\* or 1); so a read answered by a remote that holds faithfully the flag an
\* update with is_enabled = b has sent gives isEnabled = b
C29_EnabledFlag ==
  /\ \A i \in DOMAIN inv : (Issued(i) /\ inv[i].args.tool \in UpdateTools) =>
       /\ inv[i].req.method = "PATCH"
       /\ IF FlagGiven(i)
            THEN /\ "isDisabled" \in DOMAIN inv[i].req.body.v.o
                 /\ inv[i].req.body.v.o.isDisabled = ClaimedIsDisabled(i)
            ELSE "isDisabled" \notin DOMAIN inv[i].req.body.v.o
  /\ \A i \in DOMAIN inv : (Issued(i) /\ inv[i].args.tool \in ListTools) =>
       inv[i].req.url =
         IF FlagGiven(i)
           THEN CollectionUrl(i) \o "?isDisabled=" \o ToStr(ClaimedIsDisabled(i))
           ELSE CollectionUrl(i)
  /\ \A i \in DOMAIN inv : (ReadBack(i) /\ inv[i].args.tool \in GetTools) =>
       RecordOf(i).o.isEnabled = ClaimedIsEnabled(inv[i].resp.body.v.o.data)
  /\ \A i \in DOMAIN inv : (ReadBack(i) /\ inv[i].args.tool \in ListTools) =>
       \A k \in DOMAIN ListOf(i).a :
         ListOf(i).a[k].o.isEnabled =
           ClaimedIsEnabled(inv[i].resp.body.v.o.data.a[k])
  /\ \A i, j \in DOMAIN inv :
       ( /\ ReadBack(i) /\ inv[i].args.tool \in UpdateTools /\ FlagGiven(i)
         /\ ReadBack(j) /\ inv[j].args.tool \in GetTools
         /\ CollectionUrl(i) = CollectionUrl(j)
         /\ Faithful(inv[j].resp.body.v.o.data.o.isDisabled,
                     inv[i].req.body.v.o.isDisabled) )
       => RecordOf(j).o.isEnabled = inv[i].args.arguments.o.is_enabled

\* an endpoint is updated with is_enabled = true, isDisabled = false goes
\* out, and the read back from a remote holding 0 says isEnabled = true
C29_Witness ==
  /\ ReadBack(1)
  /\ inv[1].args = [tool |-> "hookbase_update_endpoint",
                    arguments |-> Obj([endpoint_id |-> Str("ep_1"),
                                       is_enabled |-> Bool(TRUE)])]
  /\ inv[1].req.body = Json(Obj([isDisabled |-> Bool(FALSE)]))
  /\ ReadBack(2)
  /\ inv[2].args.tool = "hookbase_get_endpoint"
  /\ inv[2].resp = Response(200, Json(Obj([data |-> Endpoint(Num(0))])))
  /\ RecordOf(2).o.isEnabled = Bool(TRUE)

\* invocation i is a call of a list_* or get_* tool
ReadCall(i) ==
  /\ inv[i].args # None
  /\ inv[i].args.tool \in ListTools \cup GetTools

\* invocations i and j are the same read, answered from the same remote
\* state
SameRead(i, j) ==
  /\ ReadCall(i)
  /\ inv[i].pc = "done"
  /\ inv[j].pc = "done"
  /\ inv[j].args = inv[i].args
  /\ inv[j].resp = inv[i].resp

ToolInvocation(i) == inv[i].pc # "idle" /\ inv[i].op # None

\* the host may start invocation i
MayStart(i) ==
  /\ mainPc = "connected"
  /\ registered
  /\ inv[i].pc = "idle"
  /\ IF i = 1 THEN TRUE ELSE inv[i - 1].pc # "idle"

\* C27: under any interleaving, a tool invocation the host may start is
\* started whatever the other invocations are doing, and once begun under a
\* configuration it has made exactly one request of its own; a step changes
\* the record of one invocation only and no step of a tool or prompt
\* invocation writes the configuration cache; tool invocations with the
\* same call and the same answer have the same result
C27_IndependentInvocations ==
  [][
    /\ \A i \in DOMAIN inv : MayStart(i) =>
         \A op \in ApiOps : ENABLED ToolCall(i, op)
    /\ \A i \in DOMAIN inv : (ToolInvocation(i)' /\ cachedConfig' # JNull) =>
         /\ inv'[i].fetches = 1
         /\ inv'[i].req # None
         /\ inv'[i].pc = "awaitFetch" <=> inv'[i].resp = None
    /\ inv' # inv =>
         /\ cachedConfig' = cachedConfig
         /\ env' = env
         /\ \E i \in DOMAIN inv : \A j \in DOMAIN inv \ {i} : inv'[j] = inv[j]
    /\ \A i, j \in DOMAIN inv :
         ( /\ ToolInvocation(i)' /\ inv'[i].pc = "done"
           /\ ToolInvocation(j)' /\ inv'[j].pc = "done"
           /\ inv'[i].op = inv'[j].op /\ inv'[i].resp = inv'[j].resp )
         => inv'[i].out = inv'[j].out
  ]_vars

\* every invocation is a tool invocation whose request is in flight
C27_Witness ==
  /\ \A i \in DOMAIN inv : inv[i].pc = "awaitFetch" /\ inv[i].fetches = 1
  /\ inv[1].op.tool = "hookbase_create_source"
  /\ inv[Len(inv)].op.tool = "hookbase_list_sources"

====
